---- MODULE Spec2Model ----
(***************************************************************************)
(* A model of trash-rs (libtrash, the trash CLI and the restore TUI): the  *)
(* freedesktop.org trash specification on a POSIX file system.             *)
(*                                                                         *)
(* A text is a sequence of pieces; a piece is one of the characters that   *)
(* the code looks for (".", "/", "%", " ", "+", "Z", a line feed) or a run *)
(* of other characters.  A file name is a text, a path a sequence of names.*)
(* An absolute path starts with the empty name (what is left of the first  *)
(* "/"), so "/h/a" is << <<>>, <<"h">>, <<"a">> >>.                        *)
(***************************************************************************)
EXTENDS Integers, Sequences, FiniteSets, TLC

VARIABLES
    fs,         \* the file system: absolute path -> node (lstat view)
    mountinfo,  \* /proc/self/mountinfo: sequence of [major, minor, mount_point]
    environ,    \* the process environment: HOME, XDG_DATA_HOME, cwd
    cli,        \* the trash CLI processes: process -> locals of main
    tui,        \* the restore TUI process: locals of App / main
    rcall       \* calls of the trash-root resolver made by a library client

vars == <<fs, mountinfo, environ, cli, tui, rcall>>

----------------------------------------------------------------------------
(* Bounds of the model.                                                    *)

\* the naming loop runs n over 1..IndexLimit-1 (the code: 1..u32::MAX)
IndexLimit == 4

\* symbolic links followed by one stat before it gives up (ELOOP)
MaxFollow == 2

----------------------------------------------------------------------------
(* Names and paths.                                                        *)

\* an environment variable that is not set
Unset == <<>>

n_root == <<>>
n_h == <<"h">>
n_m == <<"m">>
n_a == <<"a">>
n_d == <<"d">>
n_x == <<"x", " ", "y">>
n_ro == <<"ro">>
n_local == <<".", "local">>
n_share == <<"share">>
n_Trash == <<"Trash">>
n_files == <<"files">>
n_info == <<"info">>
n_dotTrash == <<".", "Trash">>
n_euid == <<"1000">>
n_dotTrashEuid == <<".", "Trash-", "1000">>
n_directorysizes == <<"directorysizes">>
n_tmp == <<"tmp">>
n_pkg == <<"trash-rs">>
ext_trashinfo == <<".", "trashinfo">>

RootPath == <<n_root>>

is_absolute(p) == Len(p) > 0 /\ p[1] = n_root

\* PathBuf::join: an absolute argument replaces the base
join(base, rel) == IF is_absolute(rel) THEN rel ELSE base \o rel

parent(p) == SubSeq(p, 1, Len(p) - 1)

file_name(p) == p[Len(p)]

starts_with(p, q) == Len(q) <= Len(p) /\ SubSeq(p, 1, Len(q)) = q

\* Path::strip_prefix, when starts_with(p, q)
strip_prefix(p, q) == SubSeq(p, Len(q) + 1, Len(p))

RECURSIVE JoinNames(_)
JoinNames(ns) ==
    IF Len(ns) = 0 THEN <<>>
    ELSE IF Len(ns) = 1 THEN ns[1]
    ELSE ns[1] \o <<"/">> \o JoinNames(Tail(ns))

\* Path::to_str: the path as a string of characters
to_str(p) ==
    IF is_absolute(p) THEN <<"/">> \o JoinNames(Tail(p)) ELSE JoinNames(p)

RECURSIVE SplitNames(_, _)
SplitNames(s, cur) ==
    IF Len(s) = 0 THEN (IF Len(cur) = 0 THEN <<>> ELSE <<cur>>)
    ELSE IF Head(s) = "/"
         THEN (IF Len(cur) = 0 THEN <<>> ELSE <<cur>>) \o SplitNames(Tail(s), <<>>)
         ELSE SplitNames(Tail(s), Append(cur, Head(s)))

\* PathBuf::from: the components of a string (repeated separators collapse)
PathBuf_from(s) ==
    IF Len(s) > 0 /\ Head(s) = "/"
    THEN <<n_root>> \o SplitNames(Tail(s), <<>>)
    ELSE SplitNames(s, <<>>)

----------------------------------------------------------------------------
(* urlencoding::encode / decode over the characters the model uses.        *)

Reserved == {"/", "%", " ", "\n"}

PctCode(c) ==
    CASE c = "/" -> <<"%", "2", "F">>
      [] c = "%" -> <<"%", "2", "5">>
      [] c = " " -> <<"%", "2", "0">>
      [] c = "\n" -> <<"%", "0", "A">>
      [] OTHER -> <<c>>

RECURSIVE encode(_)
encode(s) ==
    IF Len(s) = 0 THEN <<>>
    ELSE (IF Head(s) \in Reserved THEN PctCode(Head(s)) ELSE <<Head(s)>>)
         \o encode(Tail(s))

\* a "%XX" escape is replaced by its character; anything else is kept
RECURSIVE decode(_)
decode(s) ==
    IF Len(s) = 0 THEN <<>>
    ELSE IF Head(s) = "%" /\ Len(s) >= 3
            /\ \E c \in Reserved : PctCode(c) = SubSeq(s, 1, 3)
         THEN <<CHOOSE c \in Reserved : PctCode(c) = SubSeq(s, 1, 3)>>
              \o decode(SubSeq(s, 4, Len(s)))
         ELSE <<Head(s)>> \o decode(Tail(s))

----------------------------------------------------------------------------
(* The file system.  A node: k the type, w whether the calling user has    *)
(* read, write (and, for a directory, search) permission, st the sticky    *)
(* bit, c the content (a file: its lines; a directory: a tag that travels  *)
(* with it), t the target of a symbolic link.                              *)

NoNode == [k |-> "none", w |-> FALSE, st |-> FALSE, c |-> <<>>, t |-> <<>>]
DirNode(w, st, c) == [k |-> "dir", w |-> w, st |-> st, c |-> c, t |-> <<>>]
FileNode(w, c) == [k |-> "file", w |-> w, st |-> FALSE, c |-> c, t |-> <<>>]
LinkNode(t) == [k |-> "link", w |-> TRUE, st |-> FALSE, c |-> <<>>, t |-> t]

\* a directory as create_dir_all leaves it
NewDir == DirNode(TRUE, FALSE, <<>>)

\* lstat succeeds
Has(f, p) == p \in DOMAIN f

Lstat(f, p) == IF Has(f, p) THEN f[p] ELSE NoNode

\* the path a stat of p ends at, following a symbolic link in the last place
RECURSIVE Follow(_, _, _)
Follow(f, p, n) ==
    IF Has(f, p) /\ f[p].k = "link"
    THEN (IF n = 0 THEN Unset ELSE Follow(f, join(parent(p), f[p].t), n - 1))
    ELSE p

\* stat: the node a path leads to, NoNode for a dangling link or a loop
Stat(f, p) == Lstat(f, Follow(f, p, MaxFollow))

\* Path::exists, Path::is_dir, Path::is_file follow links; is_symlink does not
exists(f, p) == Stat(f, p).k # "none"
is_dir(f, p) == Stat(f, p).k = "dir"
is_file(f, p) == Stat(f, p).k = "file"
is_symlink(f, p) == Lstat(f, p).k = "link"

\* a proper ancestor of p that is there and is no directory (ENOTDIR)
UnderNonDir(f, p) ==
    \E i \in 1..(Len(p) - 1) :
        LET q == SubSeq(p, 1, i) IN Has(f, q) /\ ~is_dir(f, q)

\* Path::try_exists: "true", "false" or "err"
try_exists(f, p) ==
    IF UnderNonDir(f, p) THEN "err"
    ELSE IF exists(f, p) THEN "true" ELSE "false"

Children(f, p) == {q \in DOMAIN f : starts_with(q, p) /\ Len(q) > Len(p)}

\* the entries of the directory p itself
DirEntries(f, p) == {q \in Children(f, p) : Len(q) = Len(p) + 1}

Put(f, p, node) == [q \in DOMAIN f \cup {p} |-> IF q = p THEN node ELSE f[q]]

RemoveTree(f, p) == [q \in {r \in DOMAIN f : ~starts_with(r, p)} |-> f[q]]

\* st_dev of the file system a path lies on: the mount with the longest
\* mount point that is a prefix of the path (the last one mounted wins)
MountOf(mi, p) ==
    LET cand == {i \in 1..Len(mi) : starts_with(p, mi[i].mount_point)}
        best == {i \in cand : \A j \in cand :
                    Len(mi[j].mount_point) < Len(mi[i].mount_point)
                    \/ (Len(mi[j].mount_point) = Len(mi[i].mount_point) /\ j <= i)}
    IN  mi[CHOOSE i \in best : TRUE]

\* the kernel's dev_t of a major and a minor number (small numbers)
makedev(major, minor) == major * 256 + minor
libc_major(dev) == (dev \div 256) % 4096
libc_minor(dev) == dev % 256

St_dev(mi, p) == MountOf(mi, p).st_dev

Ok(f) == [e |-> "", fs |-> f]
Fail(e, f) == [e |-> e, fs |-> f]

\* libc::access(R_OK | W_OK | X_OK), follows links
is_writable_dir(f, p) == Stat(f, p).k = "dir" /\ Stat(f, p).w

\* std::fs::create_dir_all
RECURSIVE create_dir_all(_, _)
create_dir_all(f, p) ==
    IF is_dir(f, p) THEN Ok(f)
    ELSE IF Has(f, p) \/ Len(p) <= 1 THEN Fail("EEXIST", f)
    ELSE LET r == create_dir_all(f, parent(p)) IN
         IF r.e # "" THEN r
         ELSE IF ~is_writable_dir(r.fs, parent(p)) THEN Fail("EACCES", r.fs)
         ELSE Ok(Put(r.fs, p, NewDir))

must_have_dir_eexist(f, p) ==
    CASE try_exists(f, p) = "true" -> Fail("already exists", f)
      [] try_exists(f, p) = "false" -> create_dir_all(f, p)
      [] OTHER -> Fail("cannot verify directory exists", f)

\* make sure the path exists as a directory, creating it with its parents
must_have_dir(f, p) ==
    CASE try_exists(f, p) = "true" ->
            IF is_dir(f, p) THEN Ok(f)
            ELSE Fail("path exists but is not a directory", f)
      [] try_exists(f, p) = "false" ->
            LET r == create_dir_all(f, p) IN
            IF r.e = "" THEN r ELSE Fail("cannot create directory", r.fs)
      [] OTHER -> Fail("cannot verify directory exists", f)

\* rename(2) of absolute paths
rename(f, mi, src, dst) ==
    IF ~Has(f, src) \/ ~is_dir(f, parent(src)) THEN Fail("ENOENT", f)
    ELSE IF ~is_dir(f, parent(dst)) THEN Fail("ENOENT", f)
    ELSE IF ~is_writable_dir(f, parent(src)) \/ ~is_writable_dir(f, parent(dst))
         THEN Fail("EACCES", f)
    ELSE IF St_dev(mi, parent(src)) # St_dev(mi, parent(dst)) THEN Fail("EXDEV", f)
    ELSE IF src = dst THEN Ok(f)
    ELSE IF starts_with(dst, src) THEN Fail("EINVAL", f)
    ELSE IF Has(f, dst) /\ f[src].k = "dir" /\ f[dst].k # "dir" THEN Fail("ENOTDIR", f)
    ELSE IF Has(f, dst) /\ f[src].k # "dir" /\ f[dst].k = "dir" THEN Fail("EISDIR", f)
    ELSE IF Has(f, dst) /\ Children(f, dst) # {} THEN Fail("ENOTEMPTY", f)
    ELSE LET moved == {q \in DOMAIN f : starts_with(q, src)}
             kept == {q \in DOMAIN f : ~starts_with(q, src) /\ q # dst}
             dom == kept \cup {dst \o strip_prefix(q, src) : q \in moved}
         IN  Ok([q \in dom |->
                    IF starts_with(q, dst)
                    THEN f[src \o strip_prefix(q, dst)]
                    ELSE f[q]])

\* unlink(2)
remove_file(f, p) ==
    IF ~Has(f, p) THEN Fail("ENOENT", f)
    ELSE IF f[p].k = "dir" THEN Fail("EISDIR", f)
    ELSE IF ~is_writable_dir(f, parent(p)) THEN Fail("EACCES", f)
    ELSE Ok(RemoveTree(f, p))

\* std::fs::remove_dir_all
remove_dir_all(f, p) ==
    IF ~Has(f, p) THEN Fail("ENOENT", f)
    ELSE IF f[p].k # "dir" THEN Fail("ENOTDIR", f)
    ELSE IF ~is_writable_dir(f, parent(p)) \/ ~f[p].w THEN Fail("EACCES", f)
    ELSE Ok(RemoveTree(f, p))

\* the open without O_EXCL: a file that is there is opened for writing
create_new_no_excl(f, p) ==
    IF Has(f, p) /\ f[p].k = "file" THEN Ok(f)
    ELSE IF ~is_dir(f, parent(p)) THEN Fail("ENOENT", f)
    ELSE IF ~is_writable_dir(f, parent(p)) THEN Fail("EACCES", f)
    ELSE Ok(Put(f, p, FileNode(TRUE, <<>>)))

\* open(O_WRONLY | O_CREAT | O_EXCL): a new, empty file
create_new(f, p) ==
    IF Has(f, p) THEN Fail("EEXIST", f)
    ELSE IF ~is_dir(f, parent(p)) THEN Fail("ENOENT", f)
    ELSE IF ~is_writable_dir(f, parent(p)) THEN Fail("EACCES", f)
    ELSE Ok(Put(f, p, FileNode(TRUE, <<>>)))

\* libc::faccessat(R_OK | W_OK, AT_SYMLINK_NOFOLLOW) and the parent's rwx
can_delete_file(f, p) ==
    /\ Len(p) > 1
    /\ is_writable_dir(f, parent(p))
    /\ Has(f, p)
    /\ f[p].w

----------------------------------------------------------------------------
(* Text helpers.                                                           *)

\* str::find of a one-character pattern: its index, or 0
RECURSIVE FindFrom(_, _, _)
FindFrom(s, c, i) ==
    IF i > Len(s) THEN 0
    ELSE IF s[i] = c THEN i ELSE FindFrom(s, c, i + 1)

find(s, c) == FindFrom(s, c, 1)

\* str::split on the line feed
RECURSIVE SplitLines(_, _)
SplitLines(s, cur) ==
    IF Len(s) = 0 THEN <<cur>>
    ELSE IF Head(s) = "\n" THEN <<cur>> \o SplitLines(Tail(s), <<>>)
    ELSE SplitLines(Tail(s), Append(cur, Head(s)))

split_lines(s) == SplitLines(s, <<>>)

\* str::trim: the text without the white space at its ends
trim(s) ==
    LET Blank(c) == c \in {" ", "\t", "\r"}
        Inked == {i \in 1..Len(s) : ~Blank(s[i])}
        first == CHOOSE i \in Inked : \A j \in Inked : i <= j
        last == CHOOSE i \in Inked : \A j \in Inked : j <= i
    IN  IF Inked = {} THEN <<>> ELSE SubSeq(s, first, last)

----------------------------------------------------------------------------
(* Device and DeviceNumber.                                                *)

NoDevice == [e |-> "", dev_id |-> 0, major |-> 0, minor |-> 0, mount_point |-> Unset]

\* DeviceNumber::for_path and Device::for_path: does not traverse a symlink
Device_for_path(f, mi, p) ==
    IF is_symlink(f, p) \/ exists(f, p)
    THEN LET d == St_dev(mi, p) IN
         [e |-> "", dev_id |-> d, major |-> libc_major(d), minor |-> libc_minor(d),
          mount_point |-> Unset]
    ELSE [NoDevice EXCEPT !.e = "ENOENT"]

\* Device::resolve_mount: the first line of mountinfo with this major:minor
resolve_mount(mi, dev) ==
    LET hit == {i \in 1..Len(mi) : mi[i].major = dev.major /\ mi[i].minor = dev.minor}
    IN  IF hit = {} THEN [dev EXCEPT !.e = "could not find mount point for dev id"]
        ELSE LET i == CHOOSE j \in hit : \A k \in hit : j <= k
             IN  [dev EXCEPT !.mount_point = mi[i].mount_point]

----------------------------------------------------------------------------
(* The environment.                                                        *)

get_home_dir(env) ==
    IF env.HOME = Unset THEN [e |-> "environment variable not found", path |-> Unset]
    ELSE [e |-> "", path |-> env.HOME]

\* XDG_DATA_HOME, or $HOME/.local/share when it is not set
get_xdg_data_home(env) ==
    IF env.XDG_DATA_HOME # Unset THEN [e |-> "", path |-> env.XDG_DATA_HOME]
    ELSE IF get_home_dir(env).e # ""
         THEN [e |-> "couldn't retrieve home directory location", path |-> Unset]
         ELSE [e |-> "", path |-> get_home_dir(env).path \o <<n_local, n_share>>]

\* to_abs_path: a relative operand is taken from the working directory
to_abs_path(env, p) == join(env.cwd, p)

----------------------------------------------------------------------------
(* TrashDirectory: the resolver of the trash root.                         *)

NoTrashDirectory ==
    [device |-> NoDevice, home |-> Unset, files |-> Unset, info |-> Unset,
     root_type |-> "none"]

\* what a step of the resolver hands on: error, file system, root path
Step(e, f, path) == [e |-> e, fs |-> f, path |-> path]

try_topdir_admin_trash_for_mkdir_first(f, top_dir, create_if_not_exist) ==
    LET admin_trash == top_dir \o <<n_dotTrash>>
        user_trash_home == admin_trash \o <<n_euid>>
        made == IF create_if_not_exist THEN create_dir_all(f, user_trash_home) ELSE Ok(f)
    IN  IF try_exists(f, admin_trash) # "true"
        THEN Step("top directory trash does not exist", f, Unset)
        ELSE IF ~is_writable_dir(made.fs, admin_trash)
        THEN Step("top directory trash isn't writable", made.fs, Unset)
        ELSE IF ~(Stat(made.fs, admin_trash).st /\ ~is_symlink(made.fs, admin_trash))
        THEN Step("top directory trash is a symlink or sticky bit not set", made.fs, Unset)
        ELSE IF ~is_writable_dir(made.fs, user_trash_home)
        THEN Step("user directory in top directory trash .Trash/uid isn't writable",
                  made.fs, Unset)
        ELSE Step("", made.fs, user_trash_home)

\* $topdir/.Trash/$uid, when $topdir/.Trash is usable
try_topdir_admin_trash_for(f, top_dir, create_if_not_exist) ==
    LET admin_trash == top_dir \o <<n_dotTrash>>
        user_trash_home == admin_trash \o <<n_euid>>
    IN  IF try_exists(f, admin_trash) # "true"
        THEN Step("top directory trash does not exist", f, Unset)
        ELSE IF ~is_writable_dir(f, admin_trash)
        THEN Step("top directory trash isn't writable", f, Unset)
        ELSE IF ~(Stat(f, admin_trash).st /\ ~is_symlink(f, admin_trash))
        THEN Step("top directory trash is a symlink or sticky bit not set", f, Unset)
        ELSE LET made == IF create_if_not_exist THEN must_have_dir(f, user_trash_home)
                         ELSE IF try_exists(f, user_trash_home) = "true" THEN Ok(f)
                         ELSE Fail("user directory in top directory trash .Trash/uid isn't writable", f)
             IN  IF made.e # "" THEN Step(made.e, made.fs, Unset)
                 ELSE IF ~is_writable_dir(made.fs, user_trash_home)
                 THEN Step("user directory in top directory trash .Trash/uid isn't writable",
                           made.fs, Unset)
                 ELSE Step("", made.fs, user_trash_home)

\* $topdir/.Trash-$uid
try_topdir_user_trash_for(f, top_dir, create_if_not_exist) ==
    LET user_trash_home == top_dir \o <<n_dotTrashEuid>>
        made == IF create_if_not_exist THEN must_have_dir(f, user_trash_home)
                ELSE IF try_exists(f, user_trash_home) = "true" THEN Ok(f)
                ELSE Fail("user directory in top directory trash .Trash-uid isn't writable", f)
    IN  IF made.e # "" THEN Step(made.e, made.fs, Unset)
        ELSE IF ~is_writable_dir(made.fs, user_trash_home)
        THEN Step("user directory in top directory trash .Trash-uid isn't writable",
                  made.fs, Unset)
        ELSE Step("", made.fs, user_trash_home)

topdir_admin_trash_exists_for(f, top_dir) == try_topdir_admin_trash_for(f, top_dir, FALSE)

topdir_user_trash_exists_for(f, top_dir) == try_topdir_user_trash_for(f, top_dir, FALSE)

\* what resolve_for_file returns: error, file system, TrashDirectory
Resolved(e, f, dir) == [e |-> e, fs |-> f, dir |-> dir]

\* the end of resolve_for_file and TrashDirectory::from: files/ and info/
WithSubdirs(f, home, device, root_type) ==
    LET files_dir == home \o <<n_files>>
        info_dir == home \o <<n_info>>
        r1 == must_have_dir(f, files_dir)
        r2 == must_have_dir(r1.fs, info_dir)
    IN  IF r1.e # "" THEN Resolved(r1.e, r1.fs, NoTrashDirectory)
        ELSE IF r2.e # "" THEN Resolved(r2.e, r2.fs, NoTrashDirectory)
        ELSE Resolved("", r2.fs,
                [device |-> device, home |-> home, files |-> files_dir,
                 info |-> info_dir, root_type |-> root_type])

TrashDirectory_from(f, root, device, root_type) == WithSubdirs(f, root, device, root_type)

\* the external mount branch with the error of the admin trash returned
ResolveTopDir_no_fallback(f, mi, file_dev) ==
    LET dev == resolve_mount(mi, file_dev) IN
    IF dev.e # "" THEN Resolved(dev.e, f, NoTrashDirectory)
    ELSE LET top_dir == dev.mount_point
             admin == try_topdir_admin_trash_for(f, top_dir, TRUE)
         IN  IF admin.e = "" THEN WithSubdirs(admin.fs, admin.path, dev, "TopDirAdmin")
             ELSE Resolved(admin.e, admin.fs, NoTrashDirectory)

\* the external mount branch of resolve_for_file
ResolveTopDir(f, mi, file_dev) ==
    LET dev == resolve_mount(mi, file_dev) IN
    IF dev.e # "" THEN Resolved(dev.e, f, NoTrashDirectory)
    ELSE LET top_dir == dev.mount_point
             admin == try_topdir_admin_trash_for(f, top_dir, TRUE)
             user == try_topdir_user_trash_for(admin.fs, top_dir, TRUE)
         IN  IF admin.e = "" THEN WithSubdirs(admin.fs, admin.path, dev, "TopDirAdmin")
             ELSE IF user.e # "" THEN Resolved(user.e, user.fs, NoTrashDirectory)
             ELSE WithSubdirs(user.fs, user.path, dev, "TopDirUser")

\* the device whose files go to the home trash
HomeDevice_of_home(f, mi, env, xdg_data_home) == Device_for_path(f, mi, env.HOME)

HomeDevice(f, mi, env, xdg_data_home) == Device_for_path(f, mi, xdg_data_home)

resolve_for_file(f, mi, env, abs_file_path) ==
    LET xdg == get_xdg_data_home(env) IN
    IF xdg.e # "" THEN Resolved(xdg.e, f, NoTrashDirectory)
    ELSE LET r0 == must_have_dir(f, xdg.path) IN
    IF r0.e # "" THEN Resolved(r0.e, r0.fs, NoTrashDirectory)
    ELSE LET file_dev == Device_for_path(r0.fs, mi, abs_file_path)
             xdg_data_home_dev == HomeDevice(r0.fs, mi, env, xdg.path)
         IN
    IF file_dev.e # "" THEN Resolved(file_dev.e, r0.fs, NoTrashDirectory)
    ELSE IF xdg_data_home_dev.e # "" THEN Resolved(xdg_data_home_dev.e, r0.fs, NoTrashDirectory)
    ELSE IF file_dev.dev_id = xdg_data_home_dev.dev_id
    THEN LET trash_home == xdg.path \o <<n_Trash>>
             r1 == must_have_dir(r0.fs, trash_home)
         IN  IF r1.e # "" THEN Resolved(r1.e, r1.fs, NoTrashDirectory)
             ELSE WithSubdirs(r1.fs, trash_home, file_dev, "Home")
    ELSE ResolveTopDir(r0.fs, mi, file_dev)

----------------------------------------------------------------------------
(* TrashInfo.                                                              *)

NoTrashInfo == [original_path |-> <<>>, deletion_date |-> <<>>, path |-> Unset]

\* u32 and i32 Display
Digits(n) == <<ToString(n)>>

TwoDigits(n) == IF n < 10 THEN <<"0" \o ToString(n)>> ELSE <<ToString(n)>>

\* DateTime::to_rfc3339_opts(SecondsFormat::Secs, true) of the local time
\* dt.t (seconds, a naive local timestamp) at UTC offset dt.off (minutes)
to_rfc3339_opts(dt) ==
    LET a == IF dt.off < 0 THEN 0 - dt.off ELSE dt.off
        hhmm == TwoDigits(a \div 60) \o <<":">> \o TwoDigits(a % 60)
    IN  <<ToString(dt.t)>> \o
        (IF dt.off = 0 THEN <<"Z">>
         ELSE IF dt.off > 0 THEN <<"+">> \o hhmm
         ELSE <<"-">> \o hhmm)

\* String::replace_range(find(c).., ""): drop the text from the first c on
DropFrom(s, c) == IF find(s, c) = 0 THEN s ELSE SubSeq(s, 1, find(s, c) - 1)

\* "drop everything after + or Z"
StripOffset(s) == DropFrom(DropFrom(DropFrom(s, "+"), "z"), "Z")

TrashInfo_new(trashinfo, original_path, deletion_date) ==
    [original_path |-> encode(original_path),
     deletion_date |-> StripOffset(to_rfc3339_opts(deletion_date)),
     path |-> trashinfo]

\* the text create_file writes
TrashInfoText(ti) ==
    <<"[Trash Info]", "\n", "Path=">> \o ti.original_path
    \o <<"\n", "DeletionDate=">> \o ti.deletion_date \o <<"\n">>

\* TrashInfo::from: e = "panic" is the index out of bounds of lines[1], lines[2]
TrashInfo_from(f, path) ==
    LET lines == split_lines(Stat(f, path).c)
        bad(i, key) == Len(lines[i]) = 0 \/ lines[i][1] # key
    IN  IF ~is_file(f, path) THEN [e |-> "panic", ti |-> NoTrashInfo]
        ELSE IF trim(lines[1]) # <<"[Trash Info]">>
        THEN [e |-> "not a valid trashinfo entry", ti |-> NoTrashInfo]
        ELSE IF Len(lines) < 2 THEN [e |-> "panic", ti |-> NoTrashInfo]
        ELSE IF bad(2, "Path=")
        THEN [e |-> "not a valid trashinfo entry", ti |-> NoTrashInfo]
        ELSE IF Len(lines) < 3 THEN [e |-> "panic", ti |-> NoTrashInfo]
        ELSE IF bad(3, "DeletionDate=")
        THEN [e |-> "not a valid trashinfo entry", ti |-> NoTrashInfo]
        ELSE [e |-> "",
              ti |-> [original_path |-> Tail(lines[2]),
                      deletion_date |-> Tail(lines[3]),
                      path |-> path]]

get_original_path(ti) == PathBuf_from(decode(ti.original_path))

----------------------------------------------------------------------------
(* TrashFile and the naming of trash entries.                              *)

\* TrashFile::new: files_entry and trashinfo are None (Unset, NoTrashInfo)
TrashFile_new(original_file, trashroot) ==
    IF ~is_absolute(original_file)
    THEN [e |-> "file path is not absolute",
          tf |-> [original_file |-> original_file, files_entry |-> Unset,
                  trashinfo |-> NoTrashInfo, trashroot |-> trashroot]]
    ELSE [e |-> "",
          tf |-> [original_file |-> original_file, files_entry |-> Unset,
                  trashinfo |-> NoTrashInfo, trashroot |-> trashroot]]

NoTrashFile ==
    [original_file |-> Unset, files_entry |-> Unset, trashinfo |-> NoTrashInfo,
     trashroot |-> NoTrashDirectory]

\* TrashFile::from: a trashed file, from its files/ entry and its .trashinfo
TrashFile_from(f, trash_file, trash_dir) ==
    LET trashinfo_path == trash_dir.info \o <<file_name(trash_file) \o ext_trashinfo>>
        ti == TrashInfo_from(f, trashinfo_path)
    IN  IF ~is_file(f, trashinfo_path)
        THEN [e |-> "trash file has no trashinfo entry", tf |-> NoTrashFile]
        ELSE IF ti.e # "" THEN [e |-> ti.e, tf |-> NoTrashFile]
        ELSE [e |-> "",
              tf |-> [original_file |-> get_original_path(ti.ti),
                      files_entry |-> trash_file,
                      trashinfo |-> ti.ti,
                      trashroot |-> trash_dir]]

\* the splitting of the name at its last "." instead of its first
get_trashable_file_name_last_dot(stripped_file_name, idx) ==
    IF idx < 2 THEN stripped_file_name
    ELSE IF find(stripped_file_name, ".") # 0
    THEN LET i == CHOOSE k \in DOMAIN stripped_file_name :
                      /\ stripped_file_name[k] = "."
                      /\ \A j \in (k + 1)..Len(stripped_file_name) :
                             stripped_file_name[j] # "."
         IN  SubSeq(stripped_file_name, 1, i - 1) \o <<".">> \o Digits(idx) \o <<".">>
             \o SubSeq(stripped_file_name, i + 1, Len(stripped_file_name))
    ELSE stripped_file_name \o <<".">> \o Digits(idx)

\* the name with ".idx" put before its first "." (or at its end), from 2 on
get_trashable_file_name(stripped_file_name, idx) ==
    IF idx < 2 THEN stripped_file_name
    ELSE IF find(stripped_file_name, ".") # 0
    THEN LET i == find(stripped_file_name, ".") IN
         SubSeq(stripped_file_name, 1, i - 1) \o <<".">> \o Digits(idx) \o <<".">>
         \o SubSeq(stripped_file_name, i + 1, Len(stripped_file_name))
    ELSE stripped_file_name \o <<".">> \o Digits(idx)

\* the path is returned whole
get_path_relative_to_whole(child, parent_path) == [e |-> "", path |-> child]

get_path_relative_to(child, parent_path) ==
    IF ~is_absolute(child) \/ ~is_absolute(parent_path)
    THEN [e |-> "require absolute paths", path |-> Unset]
    ELSE IF ~starts_with(child, parent_path)
    THEN [e |-> "prefix not found", path |-> Unset]
    ELSE [e |-> "", path |-> strip_prefix(child, parent_path)]

\* the test of the naming loop: is the candidate free
FreshFilesOnly(f, file, trashinfo) == ~exists(f, file)

Fresh(f, file, trashinfo) == ~exists(f, file) /\ ~exists(f, trashinfo)

\* the body of the naming loop for the index n and the ones after it
RECURSIVE NamingLoop(_, _, _, _, _)
NamingLoop(f, self, trash_file, now, n) ==
    IF n >= IndexLimit
    THEN [e |-> "reached maximum trash file name iteration", tf |-> trash_file]
    ELSE LET trashable_file_name ==
                 get_trashable_file_name(file_name(trash_file.original_file), n)
             file == self.files \o <<trashable_file_name>>
             trashinfo == self.info \o <<file_name(file) \o ext_trashinfo>>
             rel == get_path_relative_to(trash_file.original_file,
                                         self.device.mount_point)
         IN  IF Fresh(f, file, trashinfo)
             THEN IF self.root_type = "Home"
                  THEN [e |-> "",
                        tf |-> [trash_file EXCEPT
                                  !.files_entry = file,
                                  !.trashinfo = TrashInfo_new(trashinfo,
                                      to_str(trash_file.original_file), now)]]
                  ELSE IF rel.e # "" THEN [e |-> rel.e,
                                           tf |-> [trash_file EXCEPT !.files_entry = file]]
                  ELSE [e |-> "",
                        tf |-> [trash_file EXCEPT
                                  !.files_entry = file,
                                  !.trashinfo = TrashInfo_new(trashinfo,
                                      to_str(rel.path), now)]]
             ELSE NamingLoop(f, self, trash_file, now, n + 1)

generate_trash_entry_names(f, self, trash_file, now) ==
    NamingLoop(f, self, trash_file, now, 1)

----------------------------------------------------------------------------
(* The directorysizes index.                                               *)

\* st_blocks * 512 of one directory or regular file
BlockBytes == 4096

\* get_dir_size: the blocks of the directory and of what is below it,
\* symbolic links left out
get_dir_size(f, p) ==
    BlockBytes * Cardinality({q \in DOMAIN f : starts_with(q, p) /\ f[q].k # "link"})

\* str::split_whitespace of one line
RECURSIVE SplitFields(_, _)
SplitFields(s, cur) ==
    IF Len(s) = 0 THEN (IF Len(cur) = 0 THEN <<>> ELSE <<cur>>)
    ELSE IF Head(s) = " "
         THEN (IF Len(cur) = 0 THEN <<>> ELSE <<cur>>) \o SplitFields(Tail(s), <<>>)
         ELSE SplitFields(Tail(s), Append(cur, Head(s)))

split_whitespace(s) == SplitFields(s, <<>>)

\* str::lines: the lines of a text, without a last empty one
lines(s) ==
    LET l == split_lines(s) IN
    IF Len(l[Len(l)]) = 0 THEN SubSeq(l, 1, Len(l) - 1) ELSE l

\* get_dirsizes_path: the directorysizes file of the root, created if absent
get_dirsizes_path(f, self) ==
    LET dir_sizes_file == self.home \o <<n_directorysizes>> IN
    CASE try_exists(f, dir_sizes_file) = "true" ->
            IF ~is_file(f, dir_sizes_file)
            THEN Step("is not a file, not updating directorysizes", f, Unset)
            ELSE IF ~can_delete_file(f, dir_sizes_file)
            THEN Step("not enough permissions to edit directorysizes", f, Unset)
            ELSE Step("", f, dir_sizes_file)
      [] try_exists(f, dir_sizes_file) = "false" ->
            IF is_symlink(f, dir_sizes_file)
            THEN Step("is a broken symlink", f, Unset)
            ELSE IF ~is_writable_dir(f, self.home)
            THEN Step("EACCES", f, Unset)
            ELSE Step("", Put(f, dir_sizes_file, FileNode(TRUE, <<>>)), dir_sizes_file)
      [] OTHER -> Step("ENOTDIR", f, Unset)

\* KeptLines that keeps the lines of the name `drop` as well
RECURSIVE KeptLines_any_name(_, _, _, _)
KeptLines_any_name(f, self, ls, drop) ==
    IF Len(ls) = 0 THEN <<>>
    ELSE LET fields == split_whitespace(Head(ls))
             keep == /\ Len(fields) = 3
                     /\ exists(f, self.files \o <<decode(fields[3])>>)
         IN  (IF keep THEN Head(ls) \o <<"\n">> ELSE <<>>)
             \o KeptLines_any_name(f, self, Tail(ls), drop)

\* the lines of the index that are kept: three fields, a name that decodes,
\* is not `drop` and is there in files/
RECURSIVE KeptLines(_, _, _, _)
KeptLines(f, self, ls, drop) ==
    IF Len(ls) = 0 THEN <<>>
    ELSE LET fields == split_whitespace(Head(ls))
             keep == /\ Len(fields) = 3
                     /\ decode(fields[3]) # drop
                     /\ exists(f, self.files \o <<decode(fields[3])>>)
         IN  (IF keep THEN Head(ls) \o <<"\n">> ELSE <<>>)
             \o KeptLines(f, self, Tail(ls), drop)

\* the directory the temporary index is written to
TempDir(self) == IF self.root_type = "Home" THEN <<n_root, n_tmp>> ELSE self.home

\* write the new index to a temporary file and rename it over the index
ReplaceIndex(f, mi, self, current_dir_sizes, content) ==
    LET tool_temp_dir == TempDir(self) \o <<n_pkg>>
        r1 == must_have_dir(f, tool_temp_dir)
        target_file_path == tool_temp_dir \o <<n_directorysizes \o <<"-", "rnd">>>>
        f2 == Put(r1.fs, target_file_path, FileNode(TRUE, content))
    IN  IF r1.e # "" THEN r1
        ELSE IF ~is_writable_dir(r1.fs, tool_temp_dir) THEN Fail("EACCES", r1.fs)
        ELSE rename(f2, mi, target_file_path, current_dir_sizes)

add_dirsizes_entry(f, mi, self, trash_file, now) ==
    LET trashed_file == trash_file.files_entry
        cur == get_dirsizes_path(f, self)
        size == get_dir_size(cur.fs, trashed_file)
        dir_name == file_name(trashed_file)
        old == IF Len(Stat(cur.fs, cur.path).c) # 0
               THEN KeptLines(cur.fs, self, lines(Stat(cur.fs, cur.path).c), dir_name)
               ELSE <<>>
        new == old \o <<ToString(size), " ", ToString(now.t), " ">>
                   \o encode(dir_name) \o <<"\n">>
    IN  IF trashed_file = Unset
        THEN Fail("attempt to update directorysizes for incomplete trash operation", f)
        ELSE IF ~is_dir(f, trashed_file) THEN Ok(f)
        ELSE IF cur.e # "" THEN Fail(cur.e, cur.fs)
        ELSE IF ~exists(cur.fs, trash_file.trashinfo.path) THEN Fail("panic", cur.fs)
        ELSE ReplaceIndex(cur.fs, mi, self, cur.path, new)

\* cleanup_dirsizes that leaves the index as it is
cleanup_dirsizes_no_rewrite(f, mi, self) ==
    LET cur == get_dirsizes_path(f, self) IN
    IF cur.e # "" THEN Fail(cur.e, cur.fs) ELSE Ok(cur.fs)

\* cleanup_dirsizes: the index without the lines of what is not in files/
cleanup_dirsizes(f, mi, self) ==
    LET cur == get_dirsizes_path(f, self)
        new == KeptLines(cur.fs, self, lines(Stat(cur.fs, cur.path).c), <<>>)
    IN  IF cur.e # "" THEN Fail(cur.e, cur.fs)
        ELSE IF Len(Stat(cur.fs, cur.path).c) = 0 THEN Ok(cur.fs)
        ELSE ReplaceIndex(cur.fs, mi, self, cur.path, new)

\* add_dirsizes_entry as the system calls it makes, for a caller that runs
\* next to other processes.  What a step hands to the next one:
NoIndex == [e |-> "none", path |-> Unset, size |-> 0, target |-> Unset, content |-> <<>>]

\* the numbers gen_range gives (the code: 100000000..999999999)
RandomNumbers == {"100000001", "100000002"}

\* File::create: open(O_WRONLY | O_CREAT | O_TRUNC), a link followed
File_create(f, p) ==
    LET q == Follow(f, p, MaxFollow) IN
    IF q = Unset THEN Fail("ELOOP", f)
    ELSE IF ~is_dir(f, parent(q)) THEN Fail("ENOENT", f)
    ELSE IF Has(f, q) /\ f[q].k = "dir" THEN Fail("EISDIR", f)
    ELSE IF Has(f, q) THEN (IF f[q].w THEN Ok(Put(f, q, [f[q] EXCEPT !.c = <<>>]))
                            ELSE Fail("EACCES", f))
    ELSE IF ~is_writable_dir(f, parent(q)) THEN Fail("EACCES", f)
    ELSE Ok(Put(f, q, FileNode(TRUE, <<>>)))

\* File::write_all of the open file: the content after the truncation
write_all(f, p, content) ==
    LET q == Follow(f, p, MaxFollow) IN Put(f, q, [f[q] EXCEPT !.c = content])

\* the start of add_dirsizes_entry and the tests of get_dirsizes_path:
\* next is "done" (no directory: Ok), "create" (no index yet) or "read"
add_dirsizes_entry_test(f, self, trash_file) ==
    LET trashed_file == trash_file.files_entry
        dir_sizes_file == self.home \o <<n_directorysizes>>
        Next(e, next) == [e |-> e, next |-> next, path |-> dir_sizes_file]
    IN  IF trashed_file = Unset
        THEN Next("attempt to update directorysizes for incomplete trash operation", "done")
        ELSE IF ~is_dir(f, trashed_file) THEN Next("", "done")
        ELSE CASE try_exists(f, dir_sizes_file) = "true" ->
                    IF ~is_file(f, dir_sizes_file)
                    THEN Next("is not a file, not updating directorysizes", "done")
                    ELSE IF ~can_delete_file(f, dir_sizes_file)
                    THEN Next("not enough permissions to edit directorysizes", "done")
                    ELSE Next("", "read")
               [] try_exists(f, dir_sizes_file) = "false" ->
                    IF is_symlink(f, dir_sizes_file)
                    THEN Next("is a broken symlink", "done")
                    ELSE Next("", "create")
               [] OTHER -> Next("ENOTDIR", "done")

\* get_dirsizes_path for an index that was not there: File::create, write_all(b"")
get_dirsizes_path_create(f, dir_sizes_file) == File_create(f, dir_sizes_file)

\* get_dir_size of the entry: an error if it is no directory (any more)
add_dirsizes_entry_size(f, trash_file) ==
    IF ~is_dir(f, trash_file.files_entry)
    THEN [e |-> "path is not a directory", size |-> 0]
    ELSE [e |-> "", size |-> get_dir_size(f, trash_file.files_entry)]

\* the mtime of the .trashinfo, the temporary directory, the index read and
\* the new content made of it; e = "panic" is the unwrap() of metadata()
add_dirsizes_entry_read(f, self, trash_file, now, current_dir_sizes, size, random_nu) ==
    LET trashed_file == trash_file.files_entry
        dir_name == file_name(trashed_file)
        tool_temp_dir == TempDir(self) \o <<n_pkg>>
        r1 == must_have_dir(f, tool_temp_dir)
        target_file_path == tool_temp_dir \o <<n_directorysizes \o <<"-", random_nu>>>>
        old == IF Len(Stat(r1.fs, current_dir_sizes).c) # 0
               THEN KeptLines(r1.fs, self, lines(Stat(r1.fs, current_dir_sizes).c), dir_name)
               ELSE <<>>
        new == old \o <<ToString(size), " ", ToString(now.t), " ">>
                   \o encode(dir_name) \o <<"\n">>
        Read(e, g) == [e |-> e, fs |-> g, target |-> target_file_path, content |-> new]
    IN  IF ~exists(f, trash_file.trashinfo.path) THEN Read("panic", f)
        ELSE IF r1.e # "" THEN Read(r1.e, r1.fs)
        ELSE IF ~exists(r1.fs, current_dir_sizes) THEN Read("ENOENT", r1.fs)
        ELSE Read("", r1.fs)

\* File::create of the temporary file and write_all of the new content
add_dirsizes_entry_write(f, target_file_path, content) ==
    LET r == File_create(f, target_file_path) IN
    IF r.e # "" THEN r ELSE Ok(write_all(r.fs, target_file_path, content))

\* the rename left out: the index stays as it was
add_dirsizes_entry_rename_skipped(f, mi, target_file_path, current_dir_sizes) == Ok(f)

\* "atomically move the file back"
add_dirsizes_entry_rename(f, mi, target_file_path, current_dir_sizes) ==
    rename(f, mi, target_file_path, current_dir_sizes)

----------------------------------------------------------------------------
(* TrashFile: the operations on one trashed item.  Each returns e (the     *)
(* error, "" for Ok) and the file system it leaves.                        *)

\* the test with `and` for `or`: only a TrashFile that lacks both is refused
Uninitialised_both(tf) == tf.files_entry = Unset /\ tf.trashinfo = NoTrashInfo

Uninitialised(tf) == tf.files_entry = Unset \/ tf.trashinfo = NoTrashInfo

\* the entry is a directory and no link to one
IsRealDir(f, p) == ~is_symlink(f, p) /\ is_dir(f, p)

\* the open of create_file without create_new: an existing file is truncated
create_file_open_truncate(f, ti) ==
    IF ~is_dir(f, parent(ti.path)) THEN Fail("error while creating trashinfo entry", f)
    ELSE Ok(Put(f, ti.path, FileNode(TRUE, TrashInfoText(ti))))

\* TrashInfo::create_file after its exists() test: create_new, write_all
create_file_open(f, ti) ==
    LET r == create_new(f, ti.path) IN
    IF r.e # "" THEN Fail("error while creating trashinfo entry", f)
    ELSE Ok(Put(f, ti.path, FileNode(TRUE, TrashInfoText(ti))))

\* TrashFile::restore: rename back, remove the .trashinfo, clean the index
restore(f, mi, env, tf) ==
    LET is_dir_entry == IsRealDir(f, tf.files_entry)
        r1 == rename(f, mi, tf.files_entry, to_abs_path(env, tf.original_file))
        r2 == remove_file(r1.fs, tf.trashinfo.path)
        r3 == cleanup_dirsizes(r2.fs, mi, tf.trashroot)
    IN  IF Uninitialised(tf) THEN Fail("trash entries are uninitialised", f)
        ELSE IF r1.e # "" THEN r1
        ELSE IF r2.e # "" THEN r2
        ELSE IF is_dir_entry THEN Ok(r3.fs)
        ELSE Ok(r2.fs)

\* delete_forever that drops the error of cleanup_dirsizes, as restore does
delete_forever_cleanup_dropped(f, mi, tf) ==
    LET is_dir_entry == IsRealDir(f, tf.files_entry)
        r1 == IF is_dir_entry THEN remove_dir_all(f, tf.files_entry)
              ELSE remove_file(f, tf.files_entry)
        r2 == remove_file(r1.fs, tf.trashinfo.path)
        r3 == cleanup_dirsizes(r2.fs, mi, tf.trashroot)
    IN  IF Uninitialised(tf) THEN Fail("trash entries are uninitialised", f)
        ELSE IF r1.e # "" THEN r1
        ELSE IF r2.e # "" THEN r2
        ELSE IF is_dir_entry THEN Ok(r3.fs)
        ELSE Ok(r2.fs)

\* TrashFile::delete_forever
delete_forever(f, mi, tf) ==
    LET is_dir_entry == IsRealDir(f, tf.files_entry)
        r1 == IF is_dir_entry THEN remove_dir_all(f, tf.files_entry)
              ELSE remove_file(f, tf.files_entry)
        r2 == remove_file(r1.fs, tf.trashinfo.path)
        r3 == cleanup_dirsizes(r2.fs, mi, tf.trashroot)
    IN  IF Uninitialised(tf) THEN Fail("trash entries are uninitialised", f)
        ELSE IF r1.e # "" THEN r1
        ELSE IF r2.e # "" THEN r2
        ELSE IF is_dir_entry THEN r3
        ELSE Ok(r2.fs)

----------------------------------------------------------------------------
(* The trash CLI.  main handles its operands one after the other; for each *)
(* it makes the calls of MainBody in this order, and leaves the process at *)
(* the first one that fails.  created and moved hold what create_trashinfo *)
(* and trash returned for the operand at hand: TRUE for Ok.                *)

Procs == {1, 2}

MainBodyChecksLate ==
    <<"try_exists", "resolve_for_file", "TrashFile_new",
      "generate_trash_entry_names", "confirm", "create_trashinfo",
      "can_delete_file", "starts_with", "trash">>

\* the calls of main with trash before create_trashinfo
MainBodyTrashFirst ==
    <<"try_exists", "can_delete_file", "resolve_for_file", "starts_with",
      "TrashFile_new", "generate_trash_entry_names", "confirm",
      "trash", "create_trashinfo">>

MainBody ==
    <<"try_exists", "can_delete_file", "resolve_for_file", "starts_with",
      "TrashFile_new", "generate_trash_entry_names", "confirm",
      "create_trashinfo", "trash">>

EXITCODE_OK == 0
EXITCODE_INVALID_ARGS == 1
EXITCODE_UNSUPPORTED == 2
EXITCODE_PANIC == 101
Running == 0 - 1

IdleCli ==
    [pc |-> 0, sub |-> 0, file_names |-> <<>>, interactive |-> FALSE, i |-> 0,
     abs_file |-> Unset, trash_dir |-> NoTrashDirectory, trash_file |-> NoTrashFile,
     created |-> FALSE, moved |-> FALSE, index |-> NoIndex,
     exit |-> Running, why |-> ""]

\* the call process p is at
At(p) == IF cli[p].pc = 0 THEN "" ELSE MainBody[cli[p].pc]

\* the call returned Ok: on to the next call, the next operand or the exit
Proceed(c) ==
    IF c.pc < Len(MainBody) THEN [c EXCEPT !.pc = c.pc + 1, !.sub = 0]
    ELSE IF c.i < Len(c.file_names)
    THEN [c EXCEPT !.pc = 1, !.sub = 0, !.i = c.i + 1,
                   !.abs_file = Unset, !.trash_dir = NoTrashDirectory,
                   !.trash_file = NoTrashFile, !.created = FALSE, !.moved = FALSE,
                   !.index = NoIndex]
    ELSE [c EXCEPT !.pc = 0, !.sub = 0, !.exit = EXITCODE_OK]

\* std::process::exit(code) after msg_err(why)
\* the error printed and the loop gone on to the next operand
Exit_next_operand(c, code, why) ==
    IF c.i < Len(c.file_names)
    THEN [c EXCEPT !.pc = 1, !.sub = 0, !.i = c.i + 1,
                   !.abs_file = Unset, !.trash_dir = NoTrashDirectory,
                   !.trash_file = NoTrashFile, !.created = FALSE, !.moved = FALSE,
                   !.index = NoIndex, !.why = why]
    ELSE [c EXCEPT !.pc = 0, !.sub = 0, !.exit = code, !.why = why]

\* std::process::exit
Exit(c, code, why) == [c EXCEPT !.pc = 0, !.sub = 0, !.exit = code, !.why = why]

CliOthers == UNCHANGED <<mountinfo, environ, tui, rcall>>

\* the process is started with its operands
CliStart(p, names, interactive) ==
    /\ cli[p].pc = 0 /\ cli[p].exit = Running /\ cli[p].i = 0
    /\ cli' = [cli EXCEPT ![p] = [IdleCli EXCEPT !.pc = 1, !.i = 1,
                                     !.file_names = names,
                                     !.interactive = interactive]]
    /\ UNCHANGED fs /\ CliOthers

\* to_abs_path and the test that the operand is there (a link may dangle)
CliTryExists(p) ==
    /\ At(p) = "try_exists"
    /\ LET c == cli[p]
           abs_file == to_abs_path(environ, c.file_names[c.i])
       IN  cli' = [cli EXCEPT ![p] =
                IF try_exists(fs, abs_file) = "false" /\ ~is_symlink(fs, abs_file)
                THEN Exit([c EXCEPT !.abs_file = abs_file], EXITCODE_INVALID_ARGS,
                          "no such file or directory")
                ELSE Proceed([c EXCEPT !.abs_file = abs_file])]
    /\ UNCHANGED fs /\ CliOthers

CliCanDelete(p) ==
    /\ At(p) = "can_delete_file"
    /\ cli' = [cli EXCEPT ![p] =
            IF ~can_delete_file(fs, cli[p].abs_file)
            THEN Exit(cli[p], EXITCODE_UNSUPPORTED,
                      "not enough permissions to delete the file")
            ELSE Proceed(cli[p])]
    /\ UNCHANGED fs /\ CliOthers

CliResolve(p) ==
    /\ At(p) = "resolve_for_file"
    /\ LET r == resolve_for_file(fs, mountinfo, environ, cli[p].abs_file) IN
       /\ fs' = r.fs
       /\ cli' = [cli EXCEPT ![p] =
               IF r.e # ""
               THEN Exit(cli[p], EXITCODE_UNSUPPORTED, "cannot resolve trash directory")
               ELSE Proceed([cli[p] EXCEPT !.trash_dir = r.dir])]
    /\ CliOthers

CliStartsWith(p) ==
    /\ At(p) = "starts_with"
    /\ cli' = [cli EXCEPT ![p] =
            IF starts_with(cli[p].abs_file, cli[p].trash_dir.home)
            THEN Exit(cli[p], EXITCODE_UNSUPPORTED, "trashing the trash is not supported")
            ELSE Proceed(cli[p])]
    /\ UNCHANGED fs /\ CliOthers

CliNew(p) ==
    /\ At(p) = "TrashFile_new"
    /\ LET r == TrashFile_new(cli[p].abs_file, cli[p].trash_dir) IN
       cli' = [cli EXCEPT ![p] =
            IF r.e # "" THEN Exit(cli[p], EXITCODE_UNSUPPORTED, r.e)
            ELSE Proceed([cli[p] EXCEPT !.trash_file = r.tf])]
    /\ UNCHANGED fs /\ CliOthers

CliNames(p) ==
    /\ At(p) = "generate_trash_entry_names"
    /\ LET r == generate_trash_entry_names(fs, cli[p].trash_dir, cli[p].trash_file,
                                           environ.now)
       IN  cli' = [cli EXCEPT ![p] =
                IF r.e # ""
                THEN Exit([cli[p] EXCEPT !.trash_file = r.tf], EXITCODE_UNSUPPORTED, r.e)
                ELSE Proceed([cli[p] EXCEPT !.trash_file = r.tf])]
    /\ UNCHANGED fs /\ CliOthers

\* the prompt of -i: the answer read from the terminal
CliConfirm(p, answer) ==
    /\ At(p) = "confirm"
    /\ cli' = [cli EXCEPT ![p] =
            IF cli[p].interactive /\ answer # "y"
            THEN Exit(cli[p], EXITCODE_OK, "not trashing the file")
            ELSE Proceed(cli[p])]
    /\ UNCHANGED fs /\ CliOthers

\* TrashFile::create_trashinfo up to the exists() test of create_file
CliCreateTrashinfo(p) ==
    /\ At(p) = "create_trashinfo" /\ cli[p].sub = 0
    /\ LET tf == cli[p].trash_file IN
       cli' = [cli EXCEPT ![p] =
            IF Uninitialised(tf)
            THEN Exit(cli[p], EXITCODE_UNSUPPORTED, "trash entries are uninitialised")
            ELSE IF exists(fs, tf.trashinfo.path)
            THEN Exit(cli[p], EXITCODE_UNSUPPORTED, "info entry already exists")
            ELSE [cli[p] EXCEPT !.sub = 1]]
    /\ UNCHANGED fs /\ CliOthers

\* the rest of create_file: open with create_new, write
CliCreateFile(p) ==
    /\ At(p) = "create_trashinfo" /\ cli[p].sub = 1
    /\ LET r == create_file_open(fs, cli[p].trash_file.trashinfo) IN
       /\ fs' = r.fs
       /\ cli' = [cli EXCEPT ![p] =
               IF r.e # "" THEN Exit(cli[p], EXITCODE_UNSUPPORTED, r.e)
               ELSE Proceed([cli[p] EXCEPT !.created = TRUE])]
    /\ CliOthers

\* TrashFile::trash up to its rename
CliTrash(p) ==
    /\ At(p) = "trash" /\ cli[p].sub = 0
    /\ LET tf == cli[p].trash_file
           r == rename(fs, mountinfo, tf.original_file, tf.files_entry)
       IN  IF Uninitialised(tf)
           THEN /\ cli' = [cli EXCEPT ![p] = Exit(cli[p], EXITCODE_UNSUPPORTED,
                                                 "trash entries are uninitialised")]
                /\ UNCHANGED fs
           ELSE /\ fs' = r.fs
                /\ cli' = [cli EXCEPT ![p] =
                       IF r.e # "" THEN Exit(cli[p], EXITCODE_UNSUPPORTED, r.e)
                       ELSE IF IsRealDir(r.fs, tf.files_entry)
                       THEN [cli[p] EXCEPT !.sub = 1, !.moved = TRUE]
                       ELSE Proceed([cli[p] EXCEPT !.moved = TRUE])]
    /\ CliOthers

\* the rest of trash() for a directory: add_dirsizes_entry, one action for
\* each of its steps; index.e is what it returns, and trash() drops it
\* ("doesn't matter if this fails").  A panic ends the process.
Indexed(c, e) ==
    IF e = "panic" THEN Exit([c EXCEPT !.index.e = e], EXITCODE_PANIC, "panic")
    ELSE Proceed([c EXCEPT !.index.e = e])

\* add_dirsizes_entry up to the tests of get_dirsizes_path
CliDirsizes(p) ==
    /\ At(p) = "trash" /\ cli[p].sub = 1
    /\ LET r == add_dirsizes_entry_test(fs, cli[p].trash_dir, cli[p].trash_file) IN
       cli' = [cli EXCEPT ![p] =
            IF r.e # "" \/ r.next = "done" THEN Indexed(cli[p], r.e)
            ELSE [cli[p] EXCEPT !.sub = IF r.next = "create" THEN 2 ELSE 3,
                                !.index.path = r.path]]
    /\ UNCHANGED fs /\ CliOthers

\* get_dirsizes_path makes the index that was not there
CliDirsizesCreate(p) ==
    /\ At(p) = "trash" /\ cli[p].sub = 2
    /\ LET r == get_dirsizes_path_create(fs, cli[p].index.path) IN
       /\ fs' = r.fs
       /\ cli' = [cli EXCEPT ![p] =
              IF r.e # "" THEN Indexed(cli[p], r.e) ELSE [cli[p] EXCEPT !.sub = 3]]
    /\ CliOthers

\* get_dir_size of the entry
CliDirsizesSize(p) ==
    /\ At(p) = "trash" /\ cli[p].sub = 3
    /\ LET r == add_dirsizes_entry_size(fs, cli[p].trash_file) IN
       cli' = [cli EXCEPT ![p] =
            IF r.e # "" THEN Indexed(cli[p], r.e)
            ELSE [cli[p] EXCEPT !.sub = 4, !.index.size = r.size]]
    /\ UNCHANGED fs /\ CliOthers

\* the index is read and the new content made
CliDirsizesRead(p, random_nu) ==
    /\ At(p) = "trash" /\ cli[p].sub = 4
    /\ LET r == add_dirsizes_entry_read(fs, cli[p].trash_dir, cli[p].trash_file,
                                        environ.now, cli[p].index.path,
                                        cli[p].index.size, random_nu)
       IN  /\ fs' = r.fs
           /\ cli' = [cli EXCEPT ![p] =
                  IF r.e # "" THEN Indexed(cli[p], r.e)
                  ELSE [cli[p] EXCEPT !.sub = 5, !.index.target = r.target,
                                      !.index.content = r.content]]
    /\ CliOthers

\* the temporary file is written
CliDirsizesWrite(p) ==
    /\ At(p) = "trash" /\ cli[p].sub = 5
    /\ LET r == add_dirsizes_entry_write(fs, cli[p].index.target, cli[p].index.content) IN
       /\ fs' = r.fs
       /\ cli' = [cli EXCEPT ![p] =
              IF r.e # "" THEN Indexed(cli[p], r.e) ELSE [cli[p] EXCEPT !.sub = 6]]
    /\ CliOthers

\* process p is about to rename its temporary file over the index
Renaming(p) == At(p) = "trash" /\ cli[p].sub = 6

\* the temporary file is renamed over the index
CliDirsizesRename(p) ==
    /\ Renaming(p)
    /\ LET r == add_dirsizes_entry_rename(fs, mountinfo, cli[p].index.target,
                                          cli[p].index.path)
       IN  /\ fs' = r.fs
           /\ cli' = [cli EXCEPT ![p] = Indexed(cli[p], r.e)]
    /\ CliOthers

----------------------------------------------------------------------------
(* The machine the trash CLI runs on: a home on the root device, an        *)
(* external mount /m the user may write to, and one, /r, whose top         *)
(* directory the user may not write to.                                    *)

n_r == <<"r">>
n_gone == <<"gone">>

P_h == <<n_root, n_h>>
P_a == P_h \o <<n_a>>
P_d == P_h \o <<n_d>>
P_da == P_d \o <<n_a>>
P_xdg == P_h \o <<n_local, n_share>>
P_homeTrash == P_xdg \o <<n_Trash>>
P_tmp == <<n_root, n_tmp>>
P_m == <<n_root, n_m>>
P_mx == P_m \o <<n_x>>
P_mxa == P_mx \o <<n_a>>
P_r == <<n_root, n_r>>
P_rx == P_r \o <<n_x>>
P_rxa == P_rx \o <<n_a>>

\* the mount table: spec is the device name /proc/mounts shows, major:minor
\* and mount_point what /proc/self/mountinfo shows, st_dev what stat gives
\* for the files on the mount
Mount(spec, major, minor, st_dev, mount_point) ==
    [spec |-> spec, major |-> major, minor |-> minor, st_dev |-> st_dev,
     mount_point |-> mount_point]

Mounts ==
    <<Mount(<<"/", "dev", "/", "sda1">>, 8, 1, makedev(8, 1), RootPath),
      Mount(<<"/", "dev", "/", "sdb1">>, 8, 17, makedev(8, 17), P_m),
      Mount(<<"/", "dev", "/", "sdc1">>, 8, 33, makedev(8, 33), P_r)>>

\* /m is a subvolume: stat gives a device number mountinfo does not show
MountsSubvol ==
    <<Mounts[1],
      Mount(<<"/", "dev", "/", "sdb1">>, 0, 44, makedev(0, 45), P_m),
      Mounts[3]>>

Env0 ==
    [HOME |-> P_h, XDG_DATA_HOME |-> Unset, cwd |-> P_h,
     now |-> [t |-> 1700000000, off |-> 0]]

Fs0 ==
    (RootPath :> DirNode(FALSE, FALSE, <<>>))
    @@ (P_tmp :> DirNode(TRUE, TRUE, <<>>))
    @@ (P_h :> DirNode(TRUE, FALSE, <<>>))
    @@ (P_h \o <<n_local>> :> NewDir)
    @@ (P_xdg :> NewDir)
    @@ (P_homeTrash :> NewDir)
    @@ (P_a :> FileNode(TRUE, <<"one">>))
    @@ (P_d :> DirNode(TRUE, FALSE, <<"dir">>))
    @@ (P_da :> LinkNode(<<n_gone>>))
    @@ (P_m :> DirNode(TRUE, FALSE, <<>>))
    @@ (P_mx :> DirNode(TRUE, FALSE, <<>>))
    @@ (P_mxa :> FileNode(TRUE, <<"two">>))
    @@ (P_r :> DirNode(FALSE, FALSE, <<>>))
    @@ (P_rx :> DirNode(TRUE, FALSE, <<>>))
    @@ (P_rxa :> FileNode(TRUE, <<"three">>))

\* the operand lists a run of the CLI is started with
Operands(p) ==
    IF p = 1
    THEN {<< <<n_a>> >>, <<P_da>>, <<P_d>>, <<P_mxa>>, <<P_homeTrash>>, <<P_rx>>,
          <<P_rxa>>, <<P_xdg>>, <<P_da, <<n_a>>>>}
    ELSE {<< <<n_a>> >>, <<P_da>>, <<P_d>>}

\* the restore TUI before it is started
NoTui ==
    [state |-> "off", choice |-> 0, trashed_files |-> <<>>, selected |-> 0,
     sort_type |-> "DeletionDate", scroll_offset |-> 0, max_visible_items |-> 0,
     overflow_checks |-> FALSE]

Init ==
    /\ fs = Fs0
    /\ mountinfo = Mounts
    /\ environ = Env0
    /\ cli = [p \in Procs |-> IdleCli]
    /\ tui = NoTui
    /\ rcall = <<>>

\* the calls main makes for an operand
CliRun(p) ==
    \/ CliTryExists(p)
    \/ CliCanDelete(p)
    \/ CliResolve(p)
    \/ CliStartsWith(p)
    \/ CliNew(p)
    \/ CliNames(p)
    \/ \E answer \in {"y", "n"} : CliConfirm(p, answer)
    \/ CliCreateTrashinfo(p)
    \/ CliCreateFile(p)
    \/ CliTrash(p)
    \/ CliDirsizes(p)
    \/ CliDirsizesCreate(p)
    \/ CliDirsizesSize(p)
    \/ \E random_nu \in RandomNumbers : CliDirsizesRead(p, random_nu)
    \/ CliDirsizesWrite(p)
    \/ CliDirsizesRename(p)

CliStep(p) ==
    \/ \E names \in Operands(p), interactive \in BOOLEAN : CliStart(p, names, interactive)
    \/ CliRun(p)

Next == \E p \in Procs : CliStep(p)

Spec == Init /\ [][Next]_vars

----------------------------------------------------------------------------
(* Listing the trash: what the restore TUI reads.                          *)

\* str::starts_with on texts whose pieces end where the prefix ends
text_starts_with(s, prefix) ==
    Len(prefix) <= Len(s) /\ SubSeq(s, 1, Len(prefix)) = prefix

RECURSIVE SetToSeq(_)
SetToSeq(S) ==
    IF S = {} THEN <<>>
    ELSE LET x == CHOOSE y \in S : TRUE IN <<x>> \o SetToSeq(S \ {x})

\* std::fs::read_dir: the children, in the order the directory gives them
read_dir(f, dir) == SetToSeq(DirEntries(f, dir))

\* TrashDirectory::get_trashed_files, from the child i of files/ on
RECURSIVE TrashedInto(_, _, _, _, _)
\* ... the child i read as t: the error returned, or on to the next child
TrashedNext_skip_invalid(f, self, children, i, files, t) ==
    IF t.e # "" THEN TrashedInto(f, self, children, i + 1, files)
    ELSE TrashedInto(f, self, children, i + 1, Append(files, t.tf))

TrashedNext(f, self, children, i, files, t) ==
    IF t.e # "" THEN [e |-> t.e, files |-> <<>>]
    ELSE TrashedInto(f, self, children, i + 1, Append(files, t.tf))

\* ... with the TrashFiles of the children before i in files
TrashedInto(f, self, children, i, files) ==
    IF i > Len(children) THEN [e |-> "", files |-> files]
    ELSE TrashedNext(f, self, children, i, files, TrashFile_from(f, children[i], self))

TrashedFrom(f, self, children, i) == TrashedInto(f, self, children, i, <<>>)

TrashDirectory_get_trashed_files(f, self) ==
    IF ~is_dir(f, self.files) THEN [e |-> "ENOENT", files |-> <<>>]
    ELSE TrashedFrom(f, self, read_dir(f, self.files), 1)

\* TrashDirectory::get_all_trash_roots, from the line i of /proc/mounts on
RECURSIVE RootsFrom(_, _, _, _)
RootsFrom(f, mi, env, i) ==
    IF i > Len(mi) THEN [e |-> "", fs |-> f, roots |-> <<>>]
    ELSE LET device == mi[i].spec
             mount_root == to_str(mi[i].mount_point)
             mount_path == PathBuf_from(mount_root)
             admin == topdir_admin_trash_exists_for(f, mount_path)
             user == topdir_user_trash_exists_for(f, mount_path)
             dev == Device_for_path(f, mi, to_abs_path(env, mount_path))
             found == IF admin.e = ""
                      THEN TrashDirectory_from(f, admin.path, dev, "TopDirAdmin")
                      ELSE TrashDirectory_from(f, user.path, dev, "TopDirUser")
             rest == RootsFrom(found.fs, mi, env, i + 1)
         IN  IF ~text_starts_with(device, <<"/", "dev">>)
                \/ text_starts_with(device, <<"/", "dev", "/", "loop">>)
                \/ text_starts_with(mount_root, <<"/", "boot">>)
                \/ (admin.e # "" /\ user.e # "")
             THEN RootsFrom(f, mi, env, i + 1)
             ELSE IF dev.e # "" THEN [e |-> dev.e, fs |-> f, roots |-> <<>>]
             ELSE IF found.e # "" THEN [e |-> found.e, fs |-> found.fs, roots |-> <<>>]
             ELSE IF rest.e # "" THEN rest
             ELSE [e |-> "", fs |-> rest.fs, roots |-> <<found.dir>> \o rest.roots]

get_all_trash_roots(f, mi, env) == RootsFrom(f, mi, env, 1)

\* the files of the roots from the root i on
RECURSIVE FilesInto(_, _, _, _)
\* ... the root i listed as here: the error returned, or on to the next root
FilesNext(f, roots, i, files, here) ==
    IF here.e # "" THEN here
    ELSE FilesInto(f, roots, i + 1, files \o here.files)

\* ... with the files of the roots before i in files
FilesInto(f, roots, i, files) ==
    IF i > Len(roots) THEN [e |-> "", files |-> files]
    ELSE FilesNext(f, roots, i, files, TrashDirectory_get_trashed_files(f, roots[i]))

FilesFrom(f, roots, i) == FilesInto(f, roots, i, <<>>)

\* get_trashed_files of the TUI: the roots of the mounts, then the home trash;
\* e = "panic" is one of its two expect() calls.  From its last step back:
Listed(e, f, files) == [e |-> e, fs |-> f, files |-> files]

\* ... the files of all the roots, in the file system the calls before left
FilesOfRoots(f, all) == Listed(all.e, f, all.files)

\* ... the roots of the mounts, and the home trash pushed after them
FilesOfMounts(user_trash_dir, trash_roots) ==
    IF trash_roots.e # "" THEN Listed(trash_roots.e, trash_roots.fs, <<>>)
    ELSE FilesOfRoots(trash_roots.fs,
             FilesFrom(trash_roots.fs, trash_roots.roots \o <<user_trash_dir.dir>>, 1))

\* ... the home trash resolved
FilesOfHome(mi, env, user_trash_dir) ==
    IF user_trash_dir.e # "" THEN Listed("panic", user_trash_dir.fs, <<>>)
    ELSE FilesOfMounts(user_trash_dir, get_all_trash_roots(user_trash_dir.fs, mi, env))

get_trashed_files(f, mi, env) ==
    IF get_home_dir(env).e # "" THEN Listed("panic", f, <<>>)
    ELSE FilesOfHome(mi, env, resolve_for_file(f, mi, env, get_home_dir(env).path))

\* the times the clock of the machine shows
Clock == {Env0.now.t}

\* the deletion_date strings compare as the times they print
Stamp(deletion_date) == CHOOSE t \in Clock : deletion_date = <<ToString(t)>>

Perms(n) == {p \in [1..n -> 1..n] : \A i, j \in 1..n : p[i] = p[j] => i = j}

\* sort_file_list: the lists sort_by may leave.  By deletion date the later
\* comes first; for equal dates the comparator answers by its first argument
\* alone and is no order, so the items of one date come in any order.
sort_file_list(list, sort_by) ==
    CASE sort_by = "DeletionDate" ->
        {[i \in 1..Len(list) |-> list[p[i]]] :
            p \in {q \in Perms(Len(list)) :
                    \A i, j \in 1..Len(list) :
                        i < j => Stamp(list[q[i]].trashinfo.deletion_date)
                                 >= Stamp(list[q[j]].trashinfo.deletion_date)}}

----------------------------------------------------------------------------
(* The restore TUI: App, the loop of main and handle_input.                *)

FILELIST_SCROLL_VIEW_OFFSET == 3

\* the rows of the file list the terminal shows
VisibleItems == 2

\* the largest index the cursor is followed to
MaxSelected == 3

Keys == {"Up", "Down", "Enter", "Delete", "Tab", "Esc"}

\* App::new; overflow_checks is the build: TRUE panics where usize would wrap
App_new(overflow_checks) ==
    [NoTui EXCEPT !.state = "RefreshFileList", !.overflow_checks = overflow_checks]

NoCall == [op |-> "none", tf |-> NoTrashFile, before |-> <<>>, e |-> ""]

\* a call of the library by the TUI: the file system it was made on, its result
Call(op, tf, before, e) == [op |-> op, tf |-> tf, before |-> before, e |-> e]

\* App::render, the parts that read the list and the cursor: TRUE if it panics
RenderPanics(t) ==
    LET len == Len(t.trashed_files)
        scroll_end == IF t.scroll_offset + VisibleItems < len
                      THEN t.scroll_offset + VisibleItems ELSE len
    IN  CASE t.state = "MainScreen" ->
               len > 0 /\ (\/ t.scroll_offset > scroll_end
                           \/ (/\ t.overflow_checks
                               /\ t.scroll_offset < scroll_end
                               /\ t.selected < t.scroll_offset))
          [] t.state \in {"RestoreConfirmation", "DeletionConfirmation"} ->
               t.selected >= len
          [] OTHER -> FALSE

\* what render leaves in App
Rendered(t) ==
    IF t.state = "MainScreen" /\ Len(t.trashed_files) > 0
    THEN [t EXCEPT !.max_visible_items = VisibleItems]
    ELSE t

Panicked(t) == [t EXCEPT !.state = "Panicked"]

\* handle_input on the main screen
HandleMainScreen(t, key) ==
    LET len == Len(t.trashed_files) IN
    CASE key = "Up" ->
           LET sel == IF t.selected > 0 THEN t.selected - 1 ELSE t.selected IN
           IF sel >= FILELIST_SCROLL_VIEW_OFFSET
              /\ sel - FILELIST_SCROLL_VIEW_OFFSET < t.scroll_offset
           THEN [t EXCEPT !.selected = sel,
                          !.scroll_offset = sel - FILELIST_SCROLL_VIEW_OFFSET]
           ELSE [t EXCEPT !.selected = sel]
      [] key = "Down" ->
           IF len = 0 /\ t.overflow_checks THEN Panicked(t)
           ELSE LET sel == IF len = 0 \/ t.selected < len - 1
                           THEN t.selected + 1 ELSE t.selected
                IN  IF sel + FILELIST_SCROLL_VIEW_OFFSET < len
                       /\ sel + FILELIST_SCROLL_VIEW_OFFSET
                          >= t.scroll_offset + t.max_visible_items
                    THEN [t EXCEPT !.selected = sel,
                                   !.scroll_offset = sel + FILELIST_SCROLL_VIEW_OFFSET
                                                     - t.max_visible_items + 1]
                    ELSE [t EXCEPT !.selected = sel]
      [] key = "Enter" -> [t EXCEPT !.state = "RestoreConfirmation", !.choice = 0]
      [] key = "Delete" -> [t EXCEPT !.state = "DeletionConfirmation", !.choice = 0]
      [] key = "ShiftDelete" -> [t EXCEPT !.state = "EmptyBinConfirmation", !.choice = 0]
      [] OTHER -> t

TuiOthers == UNCHANGED <<mountinfo, environ, cli>>

\* the TUI is started
TuiStart(overflow_checks) ==
    /\ tui.state = "off"
    /\ tui' = App_new(overflow_checks)
    /\ UNCHANGED <<fs, rcall>> /\ TuiOthers

\* what main does with the list it got: Err ends main, Ok is sorted and shown
Refreshed(r) ==
    /\ fs' = r.fs
    /\ IF r.e = "panic" THEN tui' = Panicked(tui)
       ELSE IF r.e # "" THEN tui' = [tui EXCEPT !.state = "Failed"]
       ELSE \E list \in sort_file_list(r.files, tui.sort_type) :
               tui' = [tui EXCEPT !.trashed_files = list, !.state = "MainScreen"]

\* the loop of main in the state RefreshFileList: list, sort, main screen
TuiRefresh ==
    /\ tui.state = "RefreshFileList"
    /\ Refreshed(get_trashed_files(fs, mountinfo, environ))
    /\ UNCHANGED rcall /\ TuiOthers

\* a key on the main screen: the frame is drawn, the key read and handled
TuiMainScreen(key) ==
    /\ tui.state = "MainScreen"
    /\ key = "Down" => tui.selected < MaxSelected
    /\ tui' = IF RenderPanics(tui) THEN Panicked(tui)
              ELSE HandleMainScreen(Rendered(tui), key)
    /\ UNCHANGED <<fs, rcall>> /\ TuiOthers

\* a key in the restore dialog
TuiRestoreConfirmation(key) ==
    /\ tui.state = "RestoreConfirmation"
    /\ IF RenderPanics(tui)
       THEN tui' = Panicked(tui) /\ UNCHANGED <<fs, rcall>>
       ELSE CASE key = "Tab" ->
                   /\ tui' = [tui EXCEPT !.choice = IF tui.choice = 0 THEN 1 ELSE 0]
                   /\ UNCHANGED <<fs, rcall>>
              [] key = "Enter" /\ tui.choice = 0 ->
                   LET selected_file == tui.trashed_files[tui.selected + 1]
                       r == restore(fs, mountinfo, environ, selected_file)
                   IN  /\ fs' = r.fs
                       /\ rcall' = <<Call("restore", selected_file, fs, r.e)>>
                       /\ tui' = IF r.e # "" THEN Panicked(tui)
                                 ELSE [tui EXCEPT !.state = "RefreshFileList"]
              [] key = "Enter" /\ tui.choice # 0 ->
                   /\ tui' = [tui EXCEPT !.state = "RefreshFileList"]
                   /\ UNCHANGED <<fs, rcall>>
              [] key = "Esc" ->
                   /\ tui' = [tui EXCEPT !.state = "RefreshFileList"]
                   /\ UNCHANGED <<fs, rcall>>
              [] OTHER -> UNCHANGED <<tui, fs, rcall>>
    /\ TuiOthers

\* a key in the deletion dialog
TuiDeletionConfirmation(key) ==
    /\ tui.state = "DeletionConfirmation"
    /\ IF RenderPanics(tui)
       THEN tui' = Panicked(tui) /\ UNCHANGED <<fs, rcall>>
       ELSE CASE key = "Tab" ->
                   /\ tui' = [tui EXCEPT !.choice = IF tui.choice = 0 THEN 1 ELSE 0]
                   /\ UNCHANGED <<fs, rcall>>
              [] key = "Enter" /\ tui.choice = 0 ->
                   LET selected_file == tui.trashed_files[tui.selected + 1]
                       r == delete_forever(fs, mountinfo, selected_file)
                   IN  /\ fs' = r.fs
                       /\ rcall' = <<Call("delete_forever", selected_file, fs, r.e)>>
                       /\ tui' = IF r.e # "" THEN Panicked(tui)
                                 ELSE [tui EXCEPT !.state = "RefreshFileList"]
              [] key = "Enter" /\ tui.choice # 0 ->
                   /\ tui' = [tui EXCEPT !.state = "RefreshFileList"]
                   /\ UNCHANGED <<fs, rcall>>
              [] key = "Esc" ->
                   /\ tui' = [tui EXCEPT !.state = "RefreshFileList"]
                   /\ UNCHANGED <<fs, rcall>>
              [] OTHER -> UNCHANGED <<tui, fs, rcall>>
    /\ TuiOthers

\* the user, outside the programs, puts a new file where one was
UserCreate(p) ==
    /\ ~Has(fs, p) /\ is_writable_dir(fs, parent(p))
    /\ fs' = Put(fs, p, FileNode(TRUE, <<"new">>))
    /\ UNCHANGED <<mountinfo, environ, cli, tui, rcall>>

\* the operands of the one run of the CLI next to the TUI
OperandsR ==
    {<<P_a>>, <<P_d>>, <<P_mxa>>, <<P_da, P_d>>, <<P_da, <<n_a>>>>}

InitR == Init

TuiStep ==
    \/ \E overflow_checks \in BOOLEAN : TuiStart(overflow_checks)
    \/ TuiRefresh
    \/ \E key \in Keys : TuiMainScreen(key)
    \/ \E key \in Keys : TuiRestoreConfirmation(key)
    \/ \E key \in Keys : TuiDeletionConfirmation(key)

NextR ==
    \/ \E names \in OperandsR : CliStart(1, names, FALSE)
    \/ CliRun(1)
    \/ TuiStep
    \/ UserCreate(P_a)

SpecRestore == InitR /\ [][NextR]_vars

----------------------------------------------------------------------------
(* The resolver alone: resolve_for_file called, and called again, for one  *)
(* file on machines that differ in what the mount /m holds, in             *)
(* XDG_DATA_HOME and in the mount table.                                   *)

P_adminTrash == P_m \o <<n_dotTrash>>
P_adminUid == P_adminTrash \o <<n_euid>>
P_userTrash == P_m \o <<n_dotTrashEuid>>
P_adm == P_m \o <<<<"adm">>>>
P_mdata == P_m \o <<<<"data">>>>
P_hdata == P_h \o <<<<"data">>>>

NoFiles == [q \in {} |-> NoNode]

\* what may be at $topdir/.Trash/$uid
UidOptions ==
    {NoFiles,
     P_adminUid :> NewDir,
     P_adminUid :> DirNode(FALSE, FALSE, <<>>),
     P_adminUid :> FileNode(TRUE, <<>>),
     (P_adminUid :> NewDir) @@ (P_adminUid \o <<n_files>> :> FileNode(TRUE, <<>>))}

\* what may be at $topdir/.Trash: nothing, a file, a link to a sticky
\* directory, or a directory, writable or not, sticky or not
AdminOptions ==
    {NoFiles,
     P_adminTrash :> FileNode(TRUE, <<>>),
     (P_adminTrash :> LinkNode(P_adm)) @@ (P_adm :> DirNode(TRUE, TRUE, <<>>))}
    \cup {(P_adminTrash :> DirNode(w, st, <<>>)) @@ sub :
            w \in BOOLEAN, st \in BOOLEAN, sub \in UidOptions}

\* what may be at $topdir/.Trash-$uid
UserOptions ==
    {NoFiles,
     P_userTrash :> NewDir,
     P_userTrash :> DirNode(FALSE, FALSE, <<>>),
     P_userTrash :> FileNode(TRUE, <<>>),
     (P_userTrash :> NewDir) @@ (P_userTrash \o <<n_files>> :> FileNode(TRUE, <<>>)),
     (P_userTrash :> NewDir) @@ (P_userTrash \o <<n_info>> :> LinkNode(<<n_gone>>))}

XdgOptions == {Unset, P_mdata, P_hdata}

InitResolve ==
    /\ \E admin \in AdminOptions, user \in UserOptions, w \in BOOLEAN :
          fs = admin @@ user @@ (P_m :> DirNode(w, FALSE, <<>>)) @@ Fs0
    /\ mountinfo \in {Mounts, MountsSubvol}
    /\ \E x \in XdgOptions : environ = [Env0 EXCEPT !.XDG_DATA_HOME = x]
    /\ cli = [p \in Procs |-> IdleCli]
    /\ tui = NoTui
    /\ rcall = <<>>

\* a call of resolve_for_file: its argument, the file system before, its result
Resolving(abs_file_path, r) ==
    /\ fs' = r.fs
    /\ rcall' = Append(rcall, [op |-> "resolve_for_file", file |-> abs_file_path,
                               before |-> fs, e |-> r.e, dir |-> r.dir])
    /\ UNCHANGED <<mountinfo, environ, cli, tui>>

ResolveFirst(abs_file_path) ==
    /\ rcall = <<>>
    /\ Resolving(abs_file_path, resolve_for_file(fs, mountinfo, environ, abs_file_path))

ResolveAgain ==
    /\ Len(rcall) = 1
    /\ Resolving(rcall[1].file,
                 resolve_for_file(fs, mountinfo, environ, rcall[1].file))

NextResolve ==
    \/ \E abs_file_path \in {P_a, P_mxa} : ResolveFirst(abs_file_path)
    \/ ResolveAgain

SpecResolve == InitResolve /\ [][NextResolve]_vars

----------------------------------------------------------------------------
(* What holds of the trash CLI, two processes of it running at once.       *)

\* the trash roots the machine may hold: the home trash and, for each
\* mount, $topdir/.Trash/$uid and $topdir/.Trash-$uid
TrashRootsOf(f) ==
    {R \in {P_homeTrash}
           \cup {mountinfo[i].mount_point \o <<n_dotTrash, n_euid>> : i \in DOMAIN mountinfo}
           \cup {mountinfo[i].mount_point \o <<n_dotTrashEuid>> : i \in DOMAIN mountinfo} :
        Has(f, R)}

HasExt(name) ==
    Len(name) > Len(ext_trashinfo)
    /\ SubSeq(name, Len(name) - Len(ext_trashinfo) + 1, Len(name)) = ext_trashinfo

StripExt(name) == SubSeq(name, 1, Len(name) - Len(ext_trashinfo))

\* every entry of files/ has its .trashinfo
FilesHaveInfo(f) ==
    \A R \in TrashRootsOf(f) : \A q \in DirEntries(f, R \o <<n_files>>) :
        Has(f, R \o <<n_info, file_name(q) \o ext_trashinfo>>)

\* every .trashinfo has its entry of files/
InfoHaveFiles(f) ==
    \A R \in TrashRootsOf(f) : \A q \in DirEntries(f, R \o <<n_info>>) :
        HasExt(file_name(q)) => Has(f, R \o <<n_files, StripExt(file_name(q))>>)

NamesOf(p) ==
    generate_trash_entry_names(fs, cli[p].trash_dir, cli[p].trash_file, environ.now)

\* C1: whenever a process is about to call generate_trash_entry_names, the
\* name the call returns is free at that time: no entry of any type, a
\* dangling symlink included, is at files/N (lstat), and none at
\* info/N.trashinfo.
C1_NameIsFree ==
    \A p \in Procs :
        At(p) = "generate_trash_entry_names" /\ NamesOf(p).e = ""
        => /\ ~Has(fs, NamesOf(p).tf.files_entry)
           /\ ~Has(fs, NamesOf(p).tf.trashinfo.path)

\* a call made while files/a is a dangling symlink: it returns a.2
C1_Witness ==
    \E p \in Procs :
        /\ At(p) = "generate_trash_entry_names"
        /\ is_symlink(fs, P_homeTrash \o <<n_files, n_a>>)
        /\ ~exists(fs, P_homeTrash \o <<n_files, n_a>>)
        /\ NamesOf(p).e = ""
        /\ NamesOf(p).tf.files_entry = P_homeTrash \o <<n_files, <<"a", ".", "2">>>>

\* the items the user has at the start: files, links and tagged directories
ItemsOf(f) == {f[q] : q \in {r \in DOMAIN f : f[r].k # "dir" \/ f[r].c # <<>>}}

\* C2: of two processes, at most one has its create_trashinfo succeed for a
\* given info/N.trashinfo, and no item is lost: no rename replaced a files/
\* entry, so every item of the start is still stored somewhere.
C2_OneWinnerPerName ==
    /\ \A p, q \in Procs :
           p # q /\ cli[p].created /\ cli[q].created
           => cli[p].trash_file.trashinfo.path # cli[q].trash_file.trashinfo.path
    /\ \A p, q \in Procs :
           p # q /\ cli[p].moved /\ cli[q].moved
           => cli[p].trash_file.files_entry # cli[q].trash_file.files_entry
    /\ ItemsOf(Fs0) \subseteq ItemsOf(fs)

\* two processes chose the same name; one created the file, the other's open failed
C2_Witness ==
    \E p, q \in Procs :
        /\ p # q /\ cli[p].created
        /\ cli[q].why = "error while creating trashinfo entry"
        /\ cli[p].trash_file.trashinfo.path = cli[q].trash_file.trashinfo.path

\* C5 as the specification states it: once a process has failed at a step of
\* trashing and no process is under way, every .trashinfo has its files/
\* entry and every files/ entry its .trashinfo.
C5_FailureLeavesPairs ==
    (/\ \A p \in Procs : cli[p].pc = 0
     /\ \E p \in Procs : cli[p].exit = EXITCODE_UNSUPPORTED)
    => FilesHaveInfo(fs) /\ InfoHaveFiles(fs)

\* the reasons main refuses an operand for
Refusals ==
    {"no such file or directory", "not enough permissions to delete the file",
     "cannot resolve trash directory", "trashing the trash is not supported",
     "file path is not absolute", "reached maximum trash file name iteration",
     "require absolute paths", "prefix not found"}

\* the files, links and their contents: what a refusal must leave alone
NonDirs(f) == [q \in {r \in DOMAIN f : f[r].k # "dir"} |-> f[q]]

\* C6: a process that refused its operand had, for that operand, neither
\* written a .trashinfo nor moved a file; if it ran alone and refused its
\* first operand, no file of the machine was added, moved or changed.
C6_RefusedBeforeWrites ==
    \A p \in Procs :
        cli[p].exit # Running /\ cli[p].why \in Refusals
        => /\ ~cli[p].created /\ ~cli[p].moved
           /\ (cli[p].i = 1 /\ (\A q \in Procs \ {p} : cli[q] = IdleCli))
              => NonDirs(fs) = NonDirs(Fs0)

\* trashing the trash refused, after the resolver made files/ and info/
C6_Witness ==
    \E p \in Procs :
        /\ cli[p].exit = EXITCODE_UNSUPPORTED
        /\ cli[p].why = "trashing the trash is not supported"
        /\ Has(fs, P_homeTrash \o <<n_info>>)
        /\ \A q \in Procs \ {p} : cli[q] = IdleCli

----------------------------------------------------------------------------
(* What holds of restoring: one run of the CLI, the TUI and the user.      *)

\* the TUI's last call was restore() of the entry process p has just made
RestoredEntryOf(p) ==
    /\ cli[p].moved
    /\ rcall # <<>>
    /\ rcall[1].op = "restore"
    /\ rcall[1].tf.files_entry = cli[p].trash_file.files_entry
    /\ rcall[1].tf.trashinfo = cli[p].trash_file.trashinfo

\* C3 as the specification states it: an item trashed from the absolute path
\* P into a root of any kind, listed and then restored, is at P again as it
\* was, and neither its files/ entry nor its .trashinfo is left.
C3_RestorePutsBack ==
    \A p \in Procs :
        RestoredEntryOf(p)
        => /\ rcall[1].e = ""
           /\ Lstat(fs, cli[p].trash_file.original_file)
                = Lstat(Fs0, cli[p].trash_file.original_file)
           /\ ~Has(fs, cli[p].trash_file.files_entry)
           /\ ~Has(fs, cli[p].trash_file.trashinfo.path)

\* where the last restore() moves its entry to
RestoreDest == to_abs_path(environ, rcall[1].tf.original_file)

\* C4 as the specification states it: restore() made when the parent of the
\* original path is gone, or when something is at the original path, returns
\* an error, leaves what is at the original path as it was, and leaves the
\* files/ entry and the .trashinfo in the trash.
C4_RestoreRefuses ==
    (/\ rcall # <<>>
     /\ rcall[1].op = "restore"
     /\ \/ ~is_dir(rcall[1].before, parent(RestoreDest))
        \/ Has(rcall[1].before, RestoreDest))
    => /\ rcall[1].e # ""
       /\ Lstat(fs, RestoreDest) = Lstat(rcall[1].before, RestoreDest)
       /\ Has(fs, rcall[1].tf.files_entry)
       /\ Has(fs, rcall[1].tf.trashinfo.path)

----------------------------------------------------------------------------
(* What holds of the resolver.                                             *)

\* $XDG_DATA_HOME, or $HOME/.local/share when it is not set
XdgDataHome ==
    IF environ.XDG_DATA_HOME # Unset THEN environ.XDG_DATA_HOME
    ELSE environ.HOME \o <<n_local, n_share>>

\* the file system the call i of rcall left
After(i) == IF i < Len(rcall) THEN rcall[i + 1].before ELSE fs

\* the file is on another device than $XDG_DATA_HOME
External(file) == St_dev(mountinfo, file) # St_dev(mountinfo, XdgDataHome)

\* mountinfo shows the device number stat gives for the file
MountListed(file) ==
    \E j \in DOMAIN mountinfo :
        makedev(mountinfo[j].major, mountinfo[j].minor) = St_dev(mountinfo, file)

\* what is at and below a path
Under(f, p) == [q \in {r \in DOMAIN f : starts_with(r, p)} |-> f[q]]

\* C7: a call of resolve_for_file that succeeds returns the Home root, and
\* then $XDG_DATA_HOME/Trash, exactly if the file's device number is that of
\* $XDG_DATA_HOME ($HOME/.local/share when the variable is not set).
C7_HomeIffSameDevice ==
    \A i \in DOMAIN rcall :
        rcall[i].e = ""
        => /\ (rcall[i].dir.root_type = "Home") <=> ~External(rcall[i].file)
           /\ rcall[i].dir.root_type = "Home"
              => rcall[i].dir.home = XdgDataHome \o <<n_Trash>>

\* $XDG_DATA_HOME is set to a directory of the mount /m, away from $HOME: the
\* file of /m goes to the Home root there
C7_Witness ==
    \E i \in DOMAIN rcall :
        /\ rcall[i].e = ""
        /\ environ.XDG_DATA_HOME = P_mdata
        /\ rcall[i].file = P_mxa
        /\ rcall[i].dir.root_type = "Home"
        /\ rcall[i].dir.home = P_mdata \o <<n_Trash>>

\* $topdir/.Trash is a directory without the sticky bit
LacksSticky(f) ==
    Has(f, P_adminTrash) /\ f[P_adminTrash].k = "dir" /\ ~f[P_adminTrash].st

\* $topdir/.Trash-$uid is there and not writable, or cannot be made
UserRootBad(f) ==
    IF exists(f, P_userTrash) THEN ~is_writable_dir(f, P_userTrash)
    ELSE Has(f, P_userTrash) \/ ~is_writable_dir(f, P_m)

\* files/ or info/ of $topdir/.Trash-$uid is there and is no directory
SubdirsBad(f) ==
    \E n \in {n_files, n_info} :
        Has(f, P_userTrash \o <<n>>) /\ ~is_dir(f, P_userTrash \o <<n>>)

\* the call i is for a file of the mount /m, on another device than
\* $XDG_DATA_HOME, and got as far as looking for the trash of the mount
TopDirCall(i) ==
    /\ rcall[i].file = P_mxa
    /\ External(rcall[i].file)
    /\ MountListed(rcall[i].file)
    /\ is_dir(After(i), XdgDataHome)

\* C8: for a file of an external mount whose .Trash is a directory without
\* the sticky bit, resolve_for_file leaves all at and below .Trash as it was;
\* if it succeeds the root is the TopDirUser root .Trash-$uid, and it
\* succeeds whenever .Trash-$uid and its files/ and info/ are usable.
C8_NoStickyFallsBack ==
    \A i \in DOMAIN rcall :
        TopDirCall(i) /\ LacksSticky(rcall[i].before)
        => /\ Under(After(i), P_adminTrash) = Under(rcall[i].before, P_adminTrash)
           /\ rcall[i].e = ""
              => /\ rcall[i].dir.root_type = "TopDirUser"
                 /\ rcall[i].dir.home = P_userTrash
           /\ ~UserRootBad(rcall[i].before) /\ ~SubdirsBad(rcall[i].before)
              => rcall[i].e = ""

\* .Trash is writable and not sticky, .Trash-$uid is made by the call
C8_Witness ==
    \E i \in DOMAIN rcall :
        /\ TopDirCall(i) /\ LacksSticky(rcall[i].before)
        /\ is_writable_dir(rcall[i].before, P_adminTrash)
        /\ ~Has(rcall[i].before, P_userTrash)
        /\ rcall[i].e = ""
        /\ rcall[i].dir.home = P_userTrash

\* $topdir/.Trash/$uid cannot be used: .Trash is missing, no directory, not
\* writable, a link or not sticky, or its $uid is not writable or no directory
AdminBad(f) ==
    \/ try_exists(f, P_adminTrash) # "true"
    \/ ~is_writable_dir(f, P_adminTrash)
    \/ is_symlink(f, P_adminTrash)
    \/ ~Stat(f, P_adminTrash).st
    \/ Has(f, P_adminUid) /\ ~is_writable_dir(f, P_adminUid)

\* the errors try_topdir_admin_trash_for words itself
AdminErrors ==
    {"top directory trash does not exist", "top directory trash isn't writable",
     "top directory trash is a symlink or sticky bit not set",
     "user directory in top directory trash .Trash/uid isn't writable"}

\* the call i had the admin trash unusable and went on without its error:
\* what it returns is the TopDirUser root, a directory after the call
FellBack(i) ==
    /\ rcall[i].e \notin AdminErrors
    /\ rcall[i].e = ""
       => /\ rcall[i].dir.root_type = "TopDirUser"
          /\ rcall[i].dir.home = P_userTrash
          /\ is_dir(After(i), P_userTrash)

\* C9 as the specification states it: with the admin trash unusable for
\* whatever reason, resolve_for_file returns the TopDirUser root and fails
\* only if that root cannot be created or is not writable.
C9_FailsOnlyOnUserRoot ==
    \A i \in DOMAIN rcall :
        TopDirCall(i) /\ AdminBad(rcall[i].before)
        => /\ FellBack(i)
           /\ rcall[i].e # "" => UserRootBad(rcall[i].before)

\* C9, amended: with the admin trash unusable for whatever reason,
\* resolve_for_file never returns the error of the admin trash; it returns
\* the TopDirUser root, and fails only if that root cannot be created or is
\* not writable, or if files/ or info/ in it is there and is no directory.
C9_FailsOnlyOnUserRootOrSubdirs ==
    \A i \in DOMAIN rcall :
        TopDirCall(i) /\ AdminBad(rcall[i].before)
        => /\ FellBack(i)
           /\ rcall[i].e # ""
              => UserRootBad(rcall[i].before) \/ SubdirsBad(rcall[i].before)

\* .Trash is sticky and writable but its $uid is not writable: .Trash-$uid
\* is made and returned
C9_Witness ==
    \E i \in DOMAIN rcall :
        /\ TopDirCall(i)
        /\ Stat(rcall[i].before, P_adminTrash).st
        /\ is_writable_dir(rcall[i].before, P_adminTrash)
        /\ Has(rcall[i].before, P_adminUid)
        /\ ~is_writable_dir(rcall[i].before, P_adminUid)
        /\ ~Has(rcall[i].before, P_userTrash)
        /\ rcall[i].e = ""
        /\ rcall[i].dir.home = P_userTrash

\* C10: when resolve_for_file has succeeded for a file, the next call for
\* the same file succeeds too, returns the same kind of root and the same
\* files/ and info/, and changes nothing in the file system.
C10_SecondCallAgrees ==
    Len(rcall) = 2 /\ rcall[1].e = ""
    => /\ rcall[2].e = ""
       /\ rcall[2].dir.root_type = rcall[1].dir.root_type
       /\ rcall[2].dir.files = rcall[1].dir.files
       /\ rcall[2].dir.info = rcall[1].dir.info
       /\ fs = rcall[2].before

\* the first call made the root with its files/ and info/, the second found them
C10_Witness ==
    /\ Len(rcall) = 2
    /\ rcall[1].e = "" /\ rcall[2].e = ""
    /\ ~Has(rcall[1].before, rcall[1].dir.home)
    /\ is_dir(rcall[2].before, rcall[1].dir.files)
    /\ is_dir(rcall[2].before, rcall[1].dir.info)

----------------------------------------------------------------------------
(* The naming of trash entries in a home trash that holds entries already: *)
(* one run of the CLI on a trash laid out in every way that trashing,      *)
(* restoring and deleting leave behind, and with the orphans of a failed   *)
(* trash or of another tool.                                               *)

n_archive == <<"archive", ".", "tar", ".", "gz">>
P_archive == P_h \o <<n_archive>>

P_homeFiles == P_homeTrash \o <<n_files>>
P_homeInfo == P_homeTrash \o <<n_info>>

\* the text of the .trashinfo of a file of the home directory, as create_file writes it
HomeInfoText(name) ==
    TrashInfoText(TrashInfo_new(Unset, to_str(P_h \o <<name>>), Env0.now))

\* what the trash holds under one entry name: nothing, an entry and its
\* .trashinfo (a file, a link that dangles, a directory), a .trashinfo
\* alone, a file alone
EntryKinds == {"none", "file", "link", "dir", "info", "entry"}

EntryNodes(entry, orig, kind) ==
    LET at_files == P_homeFiles \o <<entry>>
        at_info == P_homeInfo \o <<entry \o ext_trashinfo>>
        info == at_info :> FileNode(TRUE, HomeInfoText(orig))
    IN  CASE kind = "none" -> NoFiles
          [] kind = "file" -> (at_files :> FileNode(TRUE, <<"old">>)) @@ info
          [] kind = "link" -> (at_files :> LinkNode(<<n_gone>>)) @@ info
          [] kind = "dir" -> (at_files :> DirNode(TRUE, FALSE, <<"old">>)) @@ info
          [] kind = "info" -> info
          [] OTHER -> at_files :> FileNode(TRUE, <<"old">>)

\* the entry names of the file name `name`, in the order the trash CLI gave
\* them out: name, then ".n" put before the first "." of the name or, if it
\* has none, at its end
FirstDot(name) ==
    IF \E i \in DOMAIN name : name[i] = "."
    THEN CHOOSE i \in DOMAIN name :
             name[i] = "." /\ \A j \in 1..(i - 1) : name[j] # "."
    ELSE Len(name) + 1

candidate(name, n) ==
    IF n = 1 THEN name
    ELSE SubSeq(name, 1, FirstDot(name) - 1) \o <<".", ToString(n)>>
         \o SubSeq(name, FirstDot(name), Len(name))

\* the trash with, for each n below IndexLimit, candidate(n) laid out as kinds[n]
RECURSIVE LayoutNodes(_, _, _)
LayoutNodes(name, kinds, n) ==
    IF n = 0 THEN NoFiles
    ELSE EntryNodes(candidate(name, n), name, kinds[n]) @@ LayoutNodes(name, kinds, n - 1)

NamedFiles == {n_a, n_d, n_archive}

OperandsN == {<<P_a>>, <<P_d>>, <<P_archive>>}

InitNames ==
    /\ \E name \in NamedFiles, kinds \in [1..(IndexLimit - 1) -> EntryKinds] :
          fs = LayoutNodes(name, kinds, IndexLimit - 1)
               @@ (P_homeFiles :> NewDir) @@ (P_homeInfo :> NewDir)
               @@ (P_archive :> FileNode(TRUE, <<"tgz">>))
               @@ Fs0
    /\ mountinfo = Mounts
    /\ environ = Env0
    /\ cli = [p \in Procs |-> IdleCli]
    /\ tui = NoTui
    /\ rcall = <<>>

NextNames ==
    \/ \E names \in OperandsN : CliStart(1, names, FALSE)
    \/ CliRun(1)

SpecNames == InitNames /\ [][NextNames]_vars

\* candidate(name, n) is free in the root: nothing at files/ (lstat),
\* nothing at info/
FreeIn(f, root, name, n) ==
    /\ ~Has(f, root.files \o <<candidate(name, n)>>)
    /\ ~Has(f, root.info \o <<candidate(name, n) \o ext_trashinfo>>)

\* the least n below IndexLimit whose candidate is free, 0 if there is none
LeastFree(f, root, name) ==
    IF \E n \in 1..(IndexLimit - 1) : FreeIn(f, root, name, n)
    THEN CHOOSE n \in 1..(IndexLimit - 1) :
             /\ FreeIn(f, root, name, n)
             /\ \A m \in 1..(n - 1) : ~FreeIn(f, root, name, m)
    ELSE 0

----------------------------------------------------------------------------
(* TrashInfo::create_file, two processes of the CLI running at once.       *)

\* the path of the .trashinfo process p is about to create
InfoPathOf(p) == cli[p].trash_file.trashinfo.path

\* C12: a step of create_file (its exists() test, or its open that follows)
\* taken while the .trashinfo path exists, whoever made it and whenever,
\* ends in an error for the process and leaves the file system, and with it
\* the content of the file at the path, as it was.
C12_ExistingInfoKept ==
    [][\A p \in Procs :
          (/\ At(p) = "create_trashinfo"
           /\ ~Uninitialised(cli[p].trash_file)
           /\ Has(fs, InfoPathOf(p))
           /\ cli'[p] # cli[p])
          => /\ cli'[p].exit = EXITCODE_UNSUPPORTED
             /\ cli'[p].why \in {"info entry already exists",
                                 "error while creating trashinfo entry"}
             /\ ~cli'[p].created
             /\ fs' = fs]_vars

\* the other process created the path after this one's exists() test: the
\* open failed, and the file holds what the other process wrote, which is
\* not what this one was about to write
C12_Witness ==
    \E p, q \in Procs :
        /\ p # q
        /\ cli[q].exit = EXITCODE_UNSUPPORTED
        /\ cli[q].why = "error while creating trashinfo entry"
        /\ InfoPathOf(q) = InfoPathOf(p)
        /\ Has(fs, InfoPathOf(p))
        /\ fs[InfoPathOf(p)].c = TrashInfoText(cli[p].trash_file.trashinfo)
        /\ fs[InfoPathOf(p)].c # TrashInfoText(cli[q].trash_file.trashinfo)

----------------------------------------------------------------------------
(* Two processes of the CLI, each trashing a directory of the home         *)
(* directory at once: the directorysizes index of the home trash.          *)

n_e == <<"e">>
P_e == P_h \o <<n_e>>

P_homeIndex == P_homeTrash \o <<n_directorysizes>>

OperandsRace == {<<P_d>>, <<P_e>>}

InitRace ==
    /\ fs = (P_e :> DirNode(TRUE, FALSE, <<"dir e">>)) @@ Fs0
    /\ mountinfo = Mounts
    /\ environ = Env0
    /\ cli = [p \in Procs |-> IdleCli]
    /\ tui = NoTui
    /\ rcall = <<>>

NextRace ==
    \E p \in Procs :
        \/ \E names \in OperandsRace : CliStart(p, names, FALSE)
        \/ CliRun(p)

SpecRace == InitRace /\ [][NextRace]_vars

\* the names the lines of an index are for
RECURSIVE LineNames(_)
LineNames(ls) ==
    IF Len(ls) = 0 THEN <<>>
    ELSE (IF Len(split_whitespace(Head(ls))) = 3
          THEN <<decode(split_whitespace(Head(ls))[3])>> ELSE <<>>)
         \o LineNames(Tail(ls))

\* the index file at path idx has a line for the entry `name`
HasLineFor(f, idx, name) ==
    /\ Has(f, idx)
    /\ \E i \in DOMAIN LineNames(lines(f[idx].c)) : LineNames(lines(f[idx].c))[i] = name

\* C15 as the specification states it: whatever the processes do, a step
\* that changes the content of a directorysizes file that is there puts a
\* fully written new index in its place, the one a process wrote to its
\* temporary file and is renaming; the file is never cut or written in place.
C15_IndexNeverPartial ==
    [][(Has(fs, P_homeIndex) /\ Has(fs', P_homeIndex)
        /\ fs'[P_homeIndex].c # fs[P_homeIndex].c)
       => \E p \in Procs :
             /\ Renaming(p)
             /\ fs'[P_homeIndex].c = cli[p].index.content]_vars

\* both processes ended, each after a successful add_dirsizes_entry
BothIndexed ==
    \A p \in Procs :
        /\ cli[p].exit = EXITCODE_OK /\ cli[p].moved /\ cli[p].index.e = ""
        /\ cli[p].index.target # Unset

\* C16: add_dirsizes_entry takes no lock, and the last writer wins: when
\* two processes have each trashed a directory into the root and updated
\* the index with success, the index is what one of them wrote, with the
\* line of that one's directory, and it lacks the line of the other
\* directory exactly when that writer had read the index before the other
\* one renamed its own (the content it wrote has no such line).
C16_LastWriterWins ==
    BothIndexed
    => \E p \in Procs :
          /\ fs[P_homeIndex].c = cli[p].index.content
          /\ HasLineFor(fs, P_homeIndex, file_name(cli[p].trash_file.files_entry))
          /\ \A q \in Procs \ {p} :
                /\ Has(fs, cli[q].trash_file.files_entry)
                /\ ~HasLineFor(fs, P_homeIndex, file_name(cli[q].trash_file.files_entry))
                   <=> \A i \in DOMAIN lines(cli[p].index.content) :
                          decode(split_whitespace(lines(cli[p].index.content)[i])[3])
                              # file_name(cli[q].trash_file.files_entry)

\* the update of one process is lost: d and e are both in files/, both
\* calls returned Ok, and the index has the line of one of them only
C16_Witness ==
    /\ BothIndexed
    /\ is_dir(fs, P_homeTrash \o <<n_files, n_d>>)
    /\ is_dir(fs, P_homeTrash \o <<n_files, n_e>>)
    /\ \E p, q \in Procs :
          /\ HasLineFor(fs, P_homeIndex, file_name(cli[p].trash_file.files_entry))
          /\ ~HasLineFor(fs, P_homeIndex, file_name(cli[q].trash_file.files_entry))
          /\ Len(lines(fs[P_homeIndex].c)) = 1

----------------------------------------------------------------------------
(* The directorysizes index on machines that differ in what the index of   *)
(* the home trash is, in where /tmp lies, in the mount /m and in the       *)
(* working directory: one run of the CLI that trashes a directory, and a   *)
(* client of the library that restores or deletes one trashed item.        *)

n_p == <<"p">>
n_q == <<"q">>
n_f == <<"f">>
n_l == <<"l">>
n_s == <<"s">>
n_k == <<"k">>
n_k2 == <<"k", ".", "2">>
n_bad == <<"bad">>

P_userFiles == P_userTrash \o <<n_files>>
P_userInfo == P_userTrash \o <<n_info>>
P_toolTemp == P_tmp \o <<n_pkg>>

\* a trashed item of the home trash: the entry and its .trashinfo
HomeItem(name, node) ==
    (P_homeFiles \o <<name>> :> node)
    @@ (P_homeInfo \o <<name \o ext_trashinfo>> :> FileNode(TRUE, HomeInfoText(name)))

\* a trashed item of the trash of /m, from /m/k: Path= is relative to /m
UserItem(name, node) ==
    (P_userFiles \o <<name>> :> node)
    @@ (P_userInfo \o <<name \o ext_trashinfo>> :>
            FileNode(TRUE, TrashInfoText(TrashInfo_new(Unset, to_str(<<n_k>>), Env0.now))))

\* the home trash holds the directories p (with a file in it) and q, the
\* file f and the link l to p; the trash of /m holds the files k and k.2
TrashedItems ==
    HomeItem(n_p, DirNode(TRUE, FALSE, <<"dir p">>))
    @@ (P_homeFiles \o <<n_p, n_a>> :> FileNode(TRUE, <<"in p">>))
    @@ HomeItem(n_q, DirNode(TRUE, FALSE, <<"dir q">>))
    @@ HomeItem(n_f, FileNode(TRUE, <<"file f">>))
    @@ HomeItem(n_l, LinkNode(<<n_p>>))
    @@ (P_homeFiles :> NewDir) @@ (P_homeInfo :> NewDir)
    @@ UserItem(n_k, FileNode(TRUE, <<"first k">>))
    @@ UserItem(n_k2, FileNode(TRUE, <<"second k">>))
    @@ (P_userTrash :> NewDir) @@ (P_userFiles :> NewDir) @@ (P_userInfo :> NewDir)

\* the text of an index with a line for each of the names; the line for
\* n_bad has two fields
RECURSIVE IndexText(_)
IndexText(names) ==
    IF Len(names) = 0 THEN <<>>
    ELSE (IF Head(names) = n_bad THEN <<"12", " ", "bad", "\n">>
          ELSE <<"8192", " ", "1690000000", " ">> \o encode(Head(names)) \o <<"\n">>)
         \o IndexText(Tail(names))

\* what is at directorysizes of the home trash: nothing, an index (one that
\* lacks q; one with the line of s, which is not in files/; one with a line
\* for d, which is not in files/ yet, and a line of two fields), an index
\* that may not be written, a directory, a link that dangles
IndexOptions ==
    {NoFiles,
     P_homeIndex :> FileNode(TRUE, IndexText(<<n_p, n_q>>)),
     P_homeIndex :> FileNode(TRUE, IndexText(<<n_p>>)),
     P_homeIndex :> FileNode(TRUE, IndexText(<<n_q, n_s, n_p>>)),
     P_homeIndex :> FileNode(TRUE, IndexText(<<n_d, n_p, n_bad, n_q>>)),
     P_homeIndex :> FileNode(FALSE, IndexText(<<n_p, n_q>>)),
     P_homeIndex :> DirNode(TRUE, FALSE, <<>>),
     P_homeIndex :> LinkNode(<<n_gone>>)}

\* /tmp is a tmpfs of its own
MountsTmpfs == Mounts \o <<Mount(<<"tmpfs">>, 0, 30, makedev(0, 30), P_tmp)>>

Machine(index, mi, others, cwd) ==
    [index |-> index, mi |-> mi, others |-> others, cwd |-> cwd]

\* the machines: every index with /tmp on the root device and on a tmpfs;
\* and, with the index of p and q, one where /tmp/trash-rs is a file, one
\* where /m has the .Trash of the administrator, one where the working
\* directory is files/ of the trash of /m
Machines ==
    {Machine(index, mi, NoFiles, P_h) :
        index \in IndexOptions, mi \in {Mounts, MountsTmpfs}}
    \cup {Machine(P_homeIndex :> FileNode(TRUE, IndexText(<<n_p, n_q>>)), Mounts,
                  others, cwd) :
            others \in {P_toolTemp :> FileNode(TRUE, <<>>),
                        (P_adminTrash :> DirNode(TRUE, TRUE, <<>>))},
            cwd \in {P_h}}
    \cup {Machine(P_homeIndex :> FileNode(TRUE, IndexText(<<n_p, n_q>>)), Mounts,
                  NoFiles, P_userFiles)}

OperandsIndex == {<<P_d>>, <<P_mx>>}

InitIndex ==
    /\ \E m \in Machines :
          /\ fs = m.index @@ m.others @@ TrashedItems @@ Fs0
          /\ mountinfo = m.mi
          /\ environ = [Env0 EXCEPT !.cwd = m.cwd]
    /\ cli = [p \in Procs |-> IdleCli]
    /\ tui = NoTui
    /\ rcall = <<>>

\* the names a client finds in files/
ItemNames == {n_p, n_q, n_f, n_l, n_k, n_k2, n_d, n_x}

\* a client of the library calls restore() or delete_forever() of one item
\* of the trash root of a directory: from the last step back, the call made ...
LibCalled(op, tf, r) ==
    /\ fs' = r.fs
    /\ rcall' = <<Call(op, tf, fs, r.e)>>

\* ... of the TrashFile that TrashFile::from made of the entry ...
LibCall(op, t) ==
    /\ t.e = ""
    /\ LibCalled(op, t.tf,
                 IF op = "restore" THEN restore(fs, mountinfo, environ, t.tf)
                 ELSE delete_forever(fs, mountinfo, t.tf))

\* ... in the root that resolve_for_file found as it is
LibItem(op, root, name) ==
    /\ root.e = "" /\ root.fs = fs
    /\ Has(fs, root.dir.files \o <<name>>)
    /\ LibCall(op, TrashFile_from(fs, root.dir.files \o <<name>>, root.dir))

LibRestore(dir, name) ==
    /\ rcall = <<>>
    /\ LibItem("restore", resolve_for_file(fs, mountinfo, environ, dir), name)
    /\ UNCHANGED <<mountinfo, environ, cli, tui>>

LibDeleteForever(dir, name) ==
    /\ rcall = <<>>
    /\ LibItem("delete_forever", resolve_for_file(fs, mountinfo, environ, dir), name)
    /\ UNCHANGED <<mountinfo, environ, cli, tui>>

NextIndex ==
    \/ \E names \in OperandsIndex : CliStart(1, names, FALSE)
    \/ CliRun(1)
    \/ \E dir \in {P_h, P_m}, name \in ItemNames : LibRestore(dir, name)
    \/ \E dir \in {P_h, P_m}, name \in ItemNames : LibDeleteForever(dir, name)

SpecIndex == InitIndex /\ [][NextIndex]_vars

\* the directorysizes file of the root of a trashed item
IndexOf(tf) == tf.trashroot.home \o <<n_directorysizes>>

\* the lines of ls that have three fields and name an entry of files/ in g
PresentLines(g, files, ls) ==
    LET Present(l) == /\ Len(split_whitespace(l)) = 3
                      /\ exists(g, files \o <<decode(split_whitespace(l)[3])>>)
    IN  SelectSeq(ls, Present)

\* the call c, made in f and leaving g, was of a directory the index had a
\* line for, it returned Ok and the index was written anew
RewrittenBy(c, f, g) ==
    /\ c.e = ""
    /\ IsRealDir(f, c.tf.files_entry)
    /\ HasLineFor(f, IndexOf(c.tf), file_name(c.tf.files_entry))
    /\ Has(g, IndexOf(c.tf))
    /\ c.op = "delete_forever" \/ g[IndexOf(c.tf)].c # f[IndexOf(c.tf)].c

\* C13: when delete_forever, or restore, of a directory that has a line in
\* directorysizes returns Ok and the index is written anew, the new index
\* has no line for that directory, and the lines of the directories that
\* are still in files/ are the ones the old index had for them, in the same
\* order.
C13_LineDroppedOthersKept ==
    [][(rcall = <<>> /\ rcall' # <<>> /\ RewrittenBy(rcall'[1], fs, fs'))
       => /\ ~HasLineFor(fs', IndexOf(rcall'[1].tf), file_name(rcall'[1].tf.files_entry))
          /\ PresentLines(fs', rcall'[1].tf.trashroot.files,
                          lines(fs'[IndexOf(rcall'[1].tf)].c))
             = PresentLines(fs', rcall'[1].tf.trashroot.files,
                            lines(fs[IndexOf(rcall'[1].tf)].c))]_vars

\* p was deleted for ever from a home trash whose index had lines for p and
\* q: the call returned Ok and the index has the line of q alone
C13_Witness ==
    /\ rcall # <<>>
    /\ rcall[1].op = "delete_forever" /\ rcall[1].e = ""
    /\ rcall[1].tf.files_entry = P_homeFiles \o <<n_p>>
    /\ HasLineFor(rcall[1].before, P_homeIndex, n_p)
    /\ HasLineFor(rcall[1].before, P_homeIndex, n_q)
    /\ ~HasLineFor(fs, P_homeIndex, n_p)
    /\ HasLineFor(fs, P_homeIndex, n_q)

\* the lines an index must have once add_dirsizes_entry has added dir_name
\* to the lines `old`: the old lines of three fields with another name and
\* an entry in files/, then the new line
ExpectedLines(f, files, old, dir_name, size, now) ==
    LET Stays(l) == /\ Len(split_whitespace(l)) = 3
                    /\ decode(split_whitespace(l)[3]) # dir_name
                    /\ exists(f, files \o <<decode(split_whitespace(l)[3])>>)
    IN  SelectSeq(old, Stays)
        \o << <<ToString(size), " ", ToString(now.t), " ">> \o encode(dir_name) >>

\* the lines of content c that are for `name`
LinesFor(c, name) ==
    {i \in DOMAIN LineNames(lines(c)) : LineNames(lines(c))[i] = name}

\* C14: the content add_dirsizes_entry makes for the trashed directory d is
\* the lines it read from the index, in order, without those for d and
\* those whose entry is not in files/ (a line needs three fields to name an
\* entry), then the one new line "<size> <mtime> <encoded d>", every line
\* ended; and when its rename succeeds the index is that content, with
\* exactly one line for d.
C14_IndexAfterAdd ==
    [][\A p \in Procs :
          /\ (At(p) = "trash" /\ cli[p].sub = 4 /\ cli'[p].sub = 5)
             => /\ lines(cli'[p].index.content)
                   = ExpectedLines(fs, cli[p].trash_dir.files,
                                   lines(Stat(fs, cli[p].index.path).c),
                                   file_name(cli[p].trash_file.files_entry),
                                   get_dir_size(fs, cli[p].trash_file.files_entry),
                                   environ.now)
                /\ cli'[p].index.content[Len(cli'[p].index.content)] = "\n"
          /\ (Renaming(p) /\ cli'[p].index.e = "")
             => /\ fs'[cli[p].index.path].c = cli[p].index.content
                /\ Cardinality(LinesFor(fs'[cli[p].index.path].c,
                                        file_name(cli[p].trash_file.files_entry))) = 1]_vars

\* d was trashed into the home trash whose index had a line for d, one for
\* p, one of two fields and one for q: the index is now p, q, d
C14_Witness ==
    /\ cli[1].exit = EXITCODE_OK /\ cli[1].moved /\ cli[1].index.e = ""
    /\ cli[1].index.target # Unset
    /\ Has(fs, P_homeIndex)
    /\ fs[P_homeIndex].c = cli[1].index.content
    /\ LineNames(lines(fs[P_homeIndex].c)) = <<n_p, n_q, n_d>>

\* C17 as the specification states it: for every kind of root the temporary
\* file of add_dirsizes_entry and of cleanup_dirsizes is on the device of
\* the directorysizes file of the root, so that the rename of the one over
\* the other never crosses devices: a process that is to rename has both on
\* one device, and no delete_forever ends with the error of a rename across
\* devices.
C17_TempOnSameDevice ==
    /\ \A p \in Procs :
          Renaming(p) => St_dev(mountinfo, parent(cli[p].index.target))
                         = St_dev(mountinfo, parent(cli[p].index.path))
    /\ rcall # <<>> /\ rcall[1].op = "delete_forever" => rcall[1].e # "EXDEV"

\* C18 as the specification states it: once the rename of trash() has put
\* the original into files/, no step of the directorysizes update that
\* follows keeps trash() from returning Ok (the process goes on, or ends
\* with the code of success), and none moves the entry back or changes it.
C18_TrashSucceedsOnceMoved ==
    [][\A p \in Procs :
          (cli[p].moved /\ cli'[p] # cli[p])
          => /\ cli'[p].exit \in {Running, EXITCODE_OK}
             /\ Has(fs, cli[p].trash_file.files_entry)
                => /\ Has(fs', cli[p].trash_file.files_entry)
                   /\ fs'[cli[p].trash_file.files_entry]
                      = fs[cli[p].trash_file.files_entry]]_vars

\* the index of the root of tf cannot be cleaned up in f: it is a directory
\* or a link that dangles, it may not be deleted, or it has content and the
\* temporary file cannot be made or lies on another device
IndexBroken(f, mi, tf) ==
    LET idx == IndexOf(tf)
        tool_temp_dir == TempDir(tf.trashroot) \o <<n_pkg>>
    IN  /\ Has(f, idx)
        /\ \/ f[idx].k # "file"
           \/ ~f[idx].w
           \/ /\ Len(f[idx].c) > 0
              /\ \/ Has(f, tool_temp_dir) /\ f[tool_temp_dir].k # "dir"
                 \/ St_dev(mi, tool_temp_dir) # St_dev(mi, tf.trashroot.home)

\* f without the entry and the .trashinfo of tf
WithoutItem(f, tf) ==
    [q \in {q \in DOMAIN f : /\ ~starts_with(q, tf.files_entry)
                             /\ q # tf.trashinfo.path} |-> f[q]]

\* C19: delete_forever of a trashed directory returns an error exactly when
\* the directorysizes of the root cannot be cleaned up, and the entry in
\* files/ and the .trashinfo are gone all the same; delete_forever of a
\* trashed file or link returns Ok whatever the index is, and leaves
\* everything but the entry and the .trashinfo as it was, the index included.
C19_DeleteForeverHardError ==
    [][(rcall = <<>> /\ rcall' # <<>> /\ rcall'[1].op = "delete_forever")
       => IF IsRealDir(fs, rcall'[1].tf.files_entry)
          THEN /\ rcall'[1].e # "" <=> IndexBroken(fs, mountinfo, rcall'[1].tf)
               /\ ~Has(fs', rcall'[1].tf.files_entry)
               /\ ~Has(fs', rcall'[1].tf.trashinfo.path)
          ELSE /\ rcall'[1].e = ""
               /\ fs' = WithoutItem(fs, rcall'[1].tf)]_vars

\* delete_forever of the directory p returned an error, and p and its
\* .trashinfo are gone
C19_Witness ==
    /\ rcall # <<>>
    /\ rcall[1].op = "delete_forever" /\ rcall[1].e # ""
    /\ rcall[1].tf.files_entry = P_homeFiles \o <<n_p>>
    /\ IsRealDir(rcall[1].before, P_homeFiles \o <<n_p>>)
    /\ ~Has(fs, P_homeFiles \o <<n_p>>)
    /\ ~Has(fs, P_homeInfo \o <<n_p \o ext_trashinfo>>)

\* f and g agree on p and on all below it
SameTree(f, g, p) ==
    /\ \A q \in DOMAIN f : starts_with(q, p) => Has(g, q) /\ g[q] = f[q]
    /\ \A q \in DOMAIN g : starts_with(q, p) => Has(f, q)

\* the items of the root of tf other than tf: their paths in files/
OtherItems(f, tf) ==
    {q \in DOMAIN f : /\ Len(q) = Len(tf.trashroot.files) + 1
                      /\ starts_with(q, tf.trashroot.files)
                      /\ q # tf.files_entry}

\* C20 as the specification states it: restore and delete_forever of one
\* item leave the entry in files/ and the .trashinfo of every other item of
\* the root as they were.
C20_OtherItemsUntouched ==
    [][(rcall = <<>> /\ rcall' # <<>>)
       => \A q \in OtherItems(fs, rcall'[1].tf) :
             /\ SameTree(fs, fs', q)
             /\ SameTree(fs, fs', rcall'[1].tf.trashroot.info
                                    \o <<file_name(q) \o ext_trashinfo>>)]_vars

----------------------------------------------------------------------------
(* src/main.rs: the binary that carries the name of the package.  It has   *)
(* its own TrashDirectory, TrashFile and helpers, and main handles the     *)
(* operands one after the other.                                           *)

\* std::fs::canonicalize: every link on the way resolved; Unset for a path
\* that is not there, that goes through a non-directory, or a loop
RECURSIVE Canon(_, _, _, _)
Canon(f, done, rest, n) ==
    IF Len(rest) = 0 THEN done
    ELSE LET next == Append(done, Head(rest)) IN
         IF ~Has(f, next) THEN Unset
         ELSE IF f[next].k = "link"
         THEN (IF n = 0 THEN Unset
               ELSE Canon(f, RootPath, Tail(join(done, f[next].t)) \o Tail(rest), n - 1))
         ELSE IF Len(rest) > 1 /\ f[next].k # "dir" THEN Unset
         ELSE Canon(f, next, Tail(rest), n)

canonicalize(f, env, p) == Canon(f, RootPath, Tail(to_abs_path(env, p)), MaxFollow)

\* can_delete_file of main.rs: libc::access(R_OK | W_OK), which follows links
main_rs_can_delete_file(f, file_path) ==
    /\ Len(file_path) > 1
    /\ is_writable_dir(f, parent(file_path))
    /\ exists(f, file_path)
    /\ Stat(f, file_path).w

\* must_have_dir of main.rs: create_dir, one level
main_rs_must_have_dir(f, p) ==
    CASE try_exists(f, p) = "true" ->
            IF is_dir(f, p) THEN Ok(f)
            ELSE Fail("path exists but is not a directory", f)
      [] try_exists(f, p) = "false" ->
            IF Has(f, p) \/ ~is_dir(f, parent(p)) \/ ~is_writable_dir(f, parent(p))
            THEN Fail("cannot create directory", f)
            ELSE Ok(Put(f, p, NewDir))
      [] OTHER -> Fail("cannot verify directory exists", f)

\* DeviceNumber::for_path of main.rs: metadata(), which follows links
main_rs_Device_for_path(f, mi, p) ==
    IF exists(f, p)
    THEN LET d == St_dev(mi, Follow(f, p, MaxFollow)) IN
         [e |-> "", dev_id |-> d, major |-> libc_major(d), minor |-> libc_minor(d),
          mount_point |-> Unset]
    ELSE [NoDevice EXCEPT !.e = "ENOENT"]

main_rs_try_topdir_admin_trash(f, top_dir) ==
    LET admin_trash == top_dir \o <<n_dotTrash>>
        user_trash_home == admin_trash \o <<n_euid>>
        made == main_rs_must_have_dir(f, user_trash_home)
    IN  IF try_exists(f, admin_trash) # "true"
        THEN Step("top directory trash does not exist", f, Unset)
        ELSE IF ~is_writable_dir(f, admin_trash)
        THEN Step("top directory trash isn't writable", f, Unset)
        ELSE IF ~(Stat(f, admin_trash).st /\ ~is_symlink(f, admin_trash))
        THEN Step("top directory trash is a symlink or sticky bit not set", f, Unset)
        ELSE IF made.e # "" THEN Step(made.e, made.fs, Unset)
        ELSE IF ~is_writable_dir(made.fs, user_trash_home)
        THEN Step("user directory in top directory trash isn't writable", made.fs, Unset)
        ELSE Step("", made.fs, user_trash_home)

main_rs_try_topdir_user_trash(f, top_dir) ==
    LET user_trash_home == top_dir \o <<n_dotTrashEuid>>
        made == main_rs_must_have_dir(f, user_trash_home)
    IN  IF made.e # "" THEN Step(made.e, made.fs, Unset)
        ELSE IF ~is_writable_dir(made.fs, user_trash_home)
        THEN Step("user directory in top directory trash isn't writable", made.fs, Unset)
        ELSE Step("", made.fs, user_trash_home)

\* the end of resolve_for_file: files/ and info/
main_rs_subdirs(f, home, device, root_type) ==
    LET r1 == main_rs_must_have_dir(f, home \o <<n_files>>)
        r2 == main_rs_must_have_dir(r1.fs, home \o <<n_info>>)
    IN  IF r1.e # "" THEN Resolved(r1.e, r1.fs, NoTrashDirectory)
        ELSE IF r2.e # "" THEN Resolved(r2.e, r2.fs, NoTrashDirectory)
        ELSE Resolved("", r2.fs,
                      [device |-> device, home |-> home, files |-> home \o <<n_files>>,
                       info |-> home \o <<n_info>>, root_type |-> root_type])

\* resolve_for_file for a file on another device than $XDG_DATA_HOME
main_rs_resolve_topdir(f, dev) ==
    LET admin == main_rs_try_topdir_admin_trash(f, dev.mount_point)
        user == main_rs_try_topdir_user_trash(admin.fs, dev.mount_point)
    IN  IF dev.e # "" THEN Resolved(dev.e, f, NoTrashDirectory)
        ELSE IF admin.e = "" THEN main_rs_subdirs(admin.fs, admin.path, dev, "TopDirAdmin")
        ELSE IF user.e # "" THEN Resolved(user.e, user.fs, NoTrashDirectory)
        ELSE main_rs_subdirs(user.fs, user.path, dev, "TopDirUser")

main_rs_resolve_for_file(f, mi, env, abs_file_path) ==
    LET xdg == get_xdg_data_home(env)
        file_dev == main_rs_Device_for_path(f, mi, abs_file_path)
        xdg_data_home_dev == main_rs_Device_for_path(f, mi, xdg.path)
        r1 == main_rs_must_have_dir(f, xdg.path \o <<n_Trash>>)
    IN  IF xdg.e # "" THEN Resolved(xdg.e, f, NoTrashDirectory)
        ELSE IF file_dev.e # "" THEN Resolved(file_dev.e, f, NoTrashDirectory)
        ELSE IF xdg_data_home_dev.e # ""
        THEN Resolved(xdg_data_home_dev.e, f, NoTrashDirectory)
        ELSE IF file_dev.dev_id = xdg_data_home_dev.dev_id
        THEN (IF r1.e # "" THEN Resolved(r1.e, r1.fs, NoTrashDirectory)
              ELSE main_rs_subdirs(r1.fs, xdg.path \o <<n_Trash>>, file_dev, "Home"))
        ELSE main_rs_resolve_topdir(f, resolve_mount(mi, file_dev))

\* generate_trash_entry_names of main.rs: the first n with neither entry there
RECURSIVE main_rs_naming(_, _, _, _)
main_rs_naming(f, self, trash_file, n) ==
    IF n >= IndexLimit
    THEN [e |-> "reached maximum trash file name iteration", tf |-> trash_file]
    ELSE LET file == self.files
                     \o <<get_trashable_file_name(file_name(trash_file.original_file), n)>>
             trashinfo == self.info \o <<file_name(file) \o ext_trashinfo>>
         IN  IF ~exists(f, file) /\ ~exists(f, trashinfo)
             THEN [e |-> "",
                   tf |-> [trash_file EXCEPT !.files_entry = file,
                                             !.trashinfo.path = trashinfo]]
             ELSE main_rs_naming(f, self, trash_file, n + 1)

main_rs_generate_trash_entry_names(f, self, trash_file) ==
    main_rs_naming(f, self, trash_file, 1)

\* TrashFile::create_trashinfo of main.rs: the date keeps its offset
main_rs_create_trashinfo(f, trash_dir, self, now) ==
    LET rel == get_path_relative_to(self.original_file, trash_dir.device.mount_point)
        file_path_key == IF trash_dir.root_type = "Home" THEN to_str(self.original_file)
                         ELSE to_str(rel.path)
        info_entry == self.trashinfo.path
        text == <<"[Trash Info]", "\n", "Path=">> \o encode(file_path_key)
                \o <<"\n", "DeletionDate=">> \o to_rfc3339_opts(now) \o <<"\n">>
        r == create_new(f, info_entry)
    IN  IF self.files_entry = Unset \/ info_entry = Unset
        THEN Fail("trash entries are uninitialised", f)
        ELSE IF trash_dir.root_type # "Home" /\ rel.e # "" THEN Fail(rel.e, f)
        ELSE IF exists(f, info_entry) THEN Fail("info entry already exists", f)
        ELSE IF r.e # "" THEN Fail("error while creating trashinfo entry", f)
        ELSE Ok(Put(f, info_entry, FileNode(TRUE, text)))

\* TrashFile::trash of main.rs
main_rs_trash(f, mi, self) ==
    IF self.files_entry = Unset \/ self.trashinfo.path = Unset
    THEN Fail("trash entries are uninitialised", f)
    ELSE rename(f, mi, self.original_file, self.files_entry)

\* get_dir_size of main.rs: the blocks of the files below the directory;
\* is_dir and is_file follow links
RECURSIVE main_rs_get_dir_size(_, _, _)
main_rs_get_dir_size(f, p, n) ==
    LET kids == {q \in DOMAIN f : Len(q) = Len(p) + 1 /\ starts_with(q, p)}
        RECURSIVE Sum(_)
        Sum(S) == IF S = {} THEN 0
                  ELSE LET q == CHOOSE x \in S : TRUE
                           own == IF is_dir(f, q)
                                  THEN (IF n = 0 THEN 0
                                        ELSE main_rs_get_dir_size(f, Follow(f, q, MaxFollow), n - 1))
                                  ELSE IF is_file(f, q) THEN BlockBytes ELSE 0
                       IN  own + Sum(S \ {q})
    IN  Sum(kids)

\* the depth get_dir_size goes to
MaxDepth == 3

\* update_dir_sizes_entry
main_rs_update_dir_sizes_entry(f, mi, self, trash_file, now, random_nu) ==
    LET trashed_file == trash_file.files_entry
        current_dir_sizes == self.home \o <<n_directorysizes>>
        size == main_rs_get_dir_size(f, trashed_file, MaxDepth)
        dir_name == file_name(trashed_file)
        tool_temp_dir == TempDir(self) \o <<n_pkg>>
        r1 == main_rs_must_have_dir(f, tool_temp_dir)
        target_file_path == tool_temp_dir \o <<n_directorysizes \o <<"-", random_nu>>>>
        old == IF exists(r1.fs, current_dir_sizes)
               THEN KeptLines(r1.fs, self, lines(Stat(r1.fs, current_dir_sizes).c), dir_name)
               ELSE <<>>
        new == old \o <<ToString(size), " ", ToString(now.t), " ">>
                   \o encode(dir_name) \o <<"\n">>
        r2 == add_dirsizes_entry_write(r1.fs, target_file_path, new)
    IN  IF trashed_file = Unset
        THEN Fail("attempt to update directorysizes for incomplete trash operation", f)
        ELSE IF ~is_dir(f, trashed_file) THEN Ok(f)
        ELSE IF ~main_rs_can_delete_file(f, current_dir_sizes)
        THEN Fail("not enough permissions to edit directorysizes", f)
        ELSE IF exists(f, current_dir_sizes) /\ ~is_file(f, current_dir_sizes)
        THEN Fail("is not a file, not updating directorysizes", f)
        ELSE IF ~exists(f, trash_file.trashinfo.path) THEN Fail("panic", f)
        ELSE IF r1.e # "" THEN r1
        ELSE IF r2.e # "" THEN r2
        ELSE rename(r2.fs, mi, target_file_path, current_dir_sizes)

\* what the handling of one operand leaves: the file system and the locals
MainRsOut(f, c) == [fs |-> f, c |-> c]

\* the end of the loop body: the next operand, or the end of main
MainRsProceed(c) ==
    IF c.i < Len(c.file_names)
    THEN [c EXCEPT !.i = c.i + 1,
                   !.abs_file = Unset, !.trash_dir = NoTrashDirectory,
                   !.trash_file = NoTrashFile, !.created = FALSE, !.moved = FALSE,
                   !.index = NoIndex]
    ELSE [c EXCEPT !.pc = 0, !.exit = EXITCODE_OK]

\* main of main.rs for one operand, from its last call back:
\* update_dir_sizes_entry, whose error is printed at most ...
MainRsUpdated(c, r) ==
    MainRsOut(r.fs, IF r.e = "panic"
                    THEN Exit([c EXCEPT !.index.e = r.e], EXITCODE_PANIC, "panic")
                    ELSE MainRsProceed([c EXCEPT !.index.e = r.e]))

\* ... trash ...
MainRsTrashed(c, r, mi, now, random_nu) ==
    IF r.e # "" THEN MainRsOut(r.fs, Exit(c, EXITCODE_UNSUPPORTED, r.e))
    ELSE MainRsUpdated([c EXCEPT !.moved = TRUE],
                       main_rs_update_dir_sizes_entry(r.fs, mi, c.trash_dir, c.trash_file,
                                                      now, random_nu))

\* ... create_trashinfo ...
MainRsCreated(c, r, mi, now, random_nu) ==
    IF r.e # "" THEN MainRsOut(r.fs, Exit(c, EXITCODE_UNSUPPORTED, r.e))
    ELSE MainRsTrashed([c EXCEPT !.created = TRUE],
                       main_rs_trash(r.fs, mi, c.trash_file), mi, now, random_nu)

\* ... generate_trash_entry_names and the question of -i ...
MainRsNamed(c, f, n, mi, now, answer, random_nu) ==
    IF n.e # "" THEN MainRsOut(f, Exit(c, EXITCODE_UNSUPPORTED, n.e))
    ELSE IF c.interactive /\ answer # "y"
    THEN MainRsOut(f, Exit([c EXCEPT !.trash_file = n.tf], EXITCODE_OK, ""))
    ELSE MainRsCreated([c EXCEPT !.trash_file = n.tf],
                       main_rs_create_trashinfo(f, c.trash_dir, n.tf, now),
                       mi, now, random_nu)

\* ... resolve_for_file, the test for the trash itself, TrashFile::new ...
MainRsResolved(c, r, mi, now, answer, random_nu) ==
    IF r.e # ""
    THEN MainRsOut(r.fs, Exit(c, EXITCODE_UNSUPPORTED, "cannot resolve trash directory"))
    ELSE IF starts_with(c.abs_file, r.dir.home)
    THEN MainRsOut(r.fs, Exit(c, EXITCODE_UNSUPPORTED,
                              "trashing the trash is not supported"))
    ELSE MainRsNamed([c EXCEPT !.trash_dir = r.dir], r.fs,
                     main_rs_generate_trash_entry_names(
                         r.fs, r.dir, TrashFile_new(c.abs_file, r.dir).tf),
                     mi, now, answer, random_nu)

\* ... canonicalize and can_delete_file
MainRsChecked(c, f, abs_file, mi, env, answer, random_nu) ==
    IF abs_file = Unset
    THEN MainRsOut(f, Exit(c, EXITCODE_INVALID_ARGS, "no such file or directory"))
    ELSE IF ~main_rs_can_delete_file(f, abs_file)
    THEN MainRsOut(f, Exit([c EXCEPT !.abs_file = abs_file], EXITCODE_UNSUPPORTED,
                           "not enough permissions to delete the file"))
    ELSE MainRsResolved([c EXCEPT !.abs_file = abs_file],
                        main_rs_resolve_for_file(f, mi, env, abs_file),
                        mi, env.now, answer, random_nu)

\* the new state of the step
MainRsDone(p, out) ==
    /\ fs' = out.fs
    /\ cli' = [cli EXCEPT ![p] = out.c]

\* main of main.rs handles the operand at hand (pc = 1: in the loop)
MainRsOperand(p, answer, random_nu) ==
    /\ cli[p].pc = 1
    /\ MainRsDone(p, MainRsChecked(cli[p], fs,
                                   canonicalize(fs, environ, cli[p].file_names[cli[p].i]),
                                   mountinfo, environ, answer, random_nu))
    /\ CliOthers

n_ln == <<"ln">>
P_ln == P_h \o <<n_ln>>

\* the operand lists main.rs is started with: a file, by a relative name and
\* by its path; a link to the file; a link that dangles; directories; the
\* trash; two operands
OperandsMainRs ==
    {<< <<n_a>> >>, <<P_a>>, <<P_ln>>, <<P_da>>, <<P_d>>, <<P_mx>>, <<P_mxa>>,
     <<P_rxa>>, <<P_homeTrash>>, <<P_da, P_a>>, <<P_d, P_a>>}

InitMainRs ==
    /\ \E m \in Machines :
          /\ fs = m.index @@ m.others @@ TrashedItems @@ (P_ln :> LinkNode(<<n_a>>)) @@ Fs0
          /\ mountinfo = m.mi
          /\ environ = [Env0 EXCEPT !.cwd = m.cwd]
    /\ cli = [p \in Procs |-> IdleCli]
    /\ tui = NoTui
    /\ rcall = <<>>

NextMainRs ==
    \/ \E names \in OperandsMainRs, interactive \in BOOLEAN :
          CliStart(1, names, interactive)
    \/ \E answer \in {"y", "n"}, random_nu \in RandomNumbers :
          MainRsOperand(1, answer, random_nu)

SpecMainRs == InitMainRs /\ [][NextMainRs]_vars

\* the operand of process p that is being handled, or was when p ended
OperandOf(p) == to_abs_path(environ, cli[p].file_names[cli[p].i])

\* C21 as the specification states it: a link whose target is not there is
\* trashed as any other file.  The run never ends with "no such file or
\* directory" for an operand that is such a link; and when the run for the
\* dangling link /h/d/a has moved it, the link itself is in files/, with
\* its .trashinfo, and no more at its place.
C21_DanglingLinkTrashed ==
    \A p \in Procs :
        /\ (cli[p].exit = EXITCODE_INVALID_ARGS
            /\ cli[p].why = "no such file or directory")
           => ~(is_symlink(fs, OperandOf(p)) /\ ~exists(fs, OperandOf(p)))
        /\ (cli[p].exit = EXITCODE_OK /\ cli[p].moved /\ cli[p].abs_file = P_da)
           => /\ is_symlink(fs, cli[p].trash_file.files_entry)
              /\ fs[cli[p].trash_file.files_entry].t = <<n_gone>>
              /\ is_file(fs, cli[p].trash_file.trashinfo.path)
              /\ ~Has(fs, P_da)

\* the step writes the .trashinfo of the operand of process p
InfoWritten(p) ==
    /\ ~Has(fs, cli[p].trash_file.trashinfo.path)
    /\ Has(fs', cli[p].trash_file.trashinfo.path)

\* the step moves the operand of process p to its entry in files/
OperandMoved(p) ==
    /\ Has(fs, cli[p].trash_file.original_file)
    /\ ~Has(fs', cli[p].trash_file.original_file)
    /\ Has(fs', cli[p].trash_file.files_entry)

\* the step changes the directorysizes of the root of process p
IndexWritten(p) ==
    Lstat(fs', cli[p].trash_dir.home \o <<n_directorysizes>>)
    # Lstat(fs, cli[p].trash_dir.home \o <<n_directorysizes>>)

\* C22: in a run of the trash CLI the steps for one operand come in the
\* order naming, .trashinfo, move, directorysizes: the process writes the
\* .trashinfo when the entry is named and not moved yet, moves the operand
\* when its .trashinfo is there, and changes the index only after the move.
C22_StepsInOrder ==
    [][\A p \in Procs :
          cli'[p] # cli[p]
          => /\ InfoWritten(p)
                => cli[p].trash_file.files_entry # Unset /\ ~cli[p].moved
             /\ OperandMoved(p)
                => cli[p].created /\ is_file(fs, cli[p].trash_file.trashinfo.path)
             /\ IndexWritten(p)
                => /\ cli[p].moved
                   /\ Has(fs, cli[p].trash_file.files_entry)
                   /\ ~Has(fs, cli[p].trash_file.original_file)]_vars

\* a run went through all four steps for the directory /h/d
C22_Witness ==
    /\ cli[1].exit = EXITCODE_OK /\ cli[1].created /\ cli[1].moved
    /\ cli[1].abs_file = P_d
    /\ cli[1].index.e = "" /\ cli[1].index.target # Unset
    /\ is_file(fs, cli[1].trash_file.trashinfo.path)
    /\ is_dir(fs, cli[1].trash_file.files_entry)
    /\ HasLineFor(fs, P_homeIndex, file_name(cli[1].trash_file.files_entry))
    /\ ~Has(fs, P_d)

----------------------------------------------------------------------------
(* A client of the library that makes one call of a TrashFile operation,   *)
(* on a TrashFile it got from TrashFile::new (nothing set), from           *)
(* generate_trash_entry_names, from TrashFile::from, or set up by itself   *)
(* (the fields are pub).                                                   *)

\* TrashFile::create_trashinfo and TrashInfo::create_file
create_trashinfo(f, self) ==
    IF Uninitialised(self) THEN Fail("trash entries are uninitialised", f)
    ELSE IF exists(f, self.trashinfo.path) THEN Fail("info entry already exists", f)
    ELSE create_file_open(f, self.trashinfo)

\* TrashFile::trash: the rename, and for a directory add_dirsizes_entry,
\* whose error is dropped (e = "panic" is its unwrap)
trash(f, mi, self, now) ==
    LET r == rename(f, mi, self.original_file, self.files_entry)
        r2 == add_dirsizes_entry(r.fs, mi, self.trashroot, self, now)
    IN  IF Uninitialised(self) THEN Fail("trash entries are uninitialised", f)
        ELSE IF r.e # "" THEN r
        ELSE IF ~IsRealDir(r.fs, self.files_entry) THEN r
        ELSE IF r2.e = "panic" THEN r2
        ELSE Ok(r2.fs)

\* TrashFile::get_size: st_size of a link or a file (the pieces of its
\* text), get_dir_size of a directory; e = "panic" is the unwrap of metadata
get_size(f, self) ==
    LET entry == self.files_entry
        Size(e, n) == [e |-> e, fs |-> f, size |-> n]
    IN  IF Uninitialised(self) THEN Size("trash entries are uninitialised", 0)
        ELSE IF is_symlink(f, entry) THEN Size("", Len(f[entry].t))
        ELSE IF is_dir(f, entry) THEN Size("", get_dir_size(f, entry))
        ELSE IF ~exists(f, entry) THEN Size("panic", 0)
        ELSE Size("", Len(Stat(f, entry).c))

\* the files a client trashes
Originals == {P_a, P_d, P_mxa}

\* how a client got its TrashFile: from TrashFile::new (nothing set), named
\* by generate_trash_entry_names (files_entry alone where the naming failed
\* after setting it), with the trashinfo alone set by the client, or from
\* TrashFile::from of an entry of files/
ClientKinds == {"new", "named", "trashinfo", "from"}

\* what the TrashFiles are of: files to trash, entries of files/
ClientPaths ==
    Originals \cup {files \o <<n>> : files \in {P_homeFiles, P_userFiles}, n \in ItemNames}

ClientFile(f, root, kind, o, now) ==
    CASE kind = "from" ->
           IF parent(o) = root.files /\ Has(f, o) THEN TrashFile_from(f, o, root)
           ELSE [e |-> "no entry", tf |-> NoTrashFile]
      [] o \notin Originals -> [e |-> "no file", tf |-> NoTrashFile]
      [] kind = "new" -> TrashFile_new(o, root)
      [] kind = "named" ->
           [e |-> "",
            tf |-> generate_trash_entry_names(f, root, TrashFile_new(o, root).tf, now).tf]
      [] OTHER ->
           [e |-> "",
            tf |-> [TrashFile_new(o, root).tf EXCEPT
                      !.trashinfo = TrashInfo_new(root.info \o <<file_name(o) \o ext_trashinfo>>,
                                                  to_str(o), now)]]

\* the call op of the TrashFile tf
ClientDo(op, tf) ==
    CASE op = "create_trashinfo" -> create_trashinfo(fs, tf)
      [] op = "trash" -> trash(fs, mountinfo, tf, environ.now)
      [] op = "restore" -> restore(fs, mountinfo, environ, tf)
      [] op = "delete_forever" -> delete_forever(fs, mountinfo, tf)
      [] op = "add_dirsizes_entry" ->
           add_dirsizes_entry(fs, mountinfo, tf.trashroot, tf, environ.now)
      [] OTHER -> get_size(fs, tf)

\* a call by the client, from its last step back: the call of the TrashFile ...
ClientWith(op, t) ==
    /\ t.e = ""
    /\ LibCalled(op, t.tf, ClientDo(op, t.tf))

\* ... that the client has for the root that resolve_for_file found as it is
ClientAt(op, root, kind, o) ==
    /\ root.e = "" /\ root.fs = fs
    /\ ClientWith(op, ClientFile(fs, root.dir, kind, o, environ.now))

ClientCall(op, dir, kind, o) ==
    /\ ClientAt(op, resolve_for_file(fs, mountinfo, environ, dir), kind, o)
    /\ UNCHANGED <<mountinfo, environ, cli, tui>>

ClientCreateTrashinfo(dir, kind, o) ==
    rcall = <<>> /\ ClientCall("create_trashinfo", dir, kind, o)

ClientTrash(dir, kind, o) ==
    rcall = <<>> /\ ClientCall("trash", dir, kind, o)

ClientRestore(dir, kind, o) ==
    rcall = <<>> /\ ClientCall("restore", dir, kind, o)

ClientDeleteForever(dir, kind, o) ==
    rcall = <<>> /\ ClientCall("delete_forever", dir, kind, o)

ClientGetSize(dir, kind, o) ==
    rcall = <<>> /\ ClientCall("get_size", dir, kind, o)

NextLib ==
    \/ \E dir \in {P_h, P_m}, kind \in ClientKinds, o \in ClientPaths :
          ClientCreateTrashinfo(dir, kind, o)
    \/ \E dir \in {P_h, P_m}, kind \in ClientKinds, o \in ClientPaths :
          ClientTrash(dir, kind, o)
    \/ \E dir \in {P_h, P_m}, kind \in ClientKinds, o \in ClientPaths :
          ClientRestore(dir, kind, o)
    \/ \E dir \in {P_h, P_m}, kind \in ClientKinds, o \in ClientPaths :
          ClientDeleteForever(dir, kind, o)
    \/ \E dir \in {P_h, P_m}, kind \in ClientKinds, o \in ClientPaths :
          ClientGetSize(dir, kind, o)

SpecLib == InitIndex /\ [][NextLib]_vars

\* C23: create_trashinfo, trash, restore, delete_forever and get_size of a
\* TrashFile that lacks its files_entry or its trashinfo return an error
\* (they do not panic) and leave the file system as it was.
C23_UninitialisedRefused ==
    [][(rcall = <<>> /\ rcall' # <<>>
        /\ (rcall'[1].tf.files_entry = Unset \/ rcall'[1].tf.trashinfo = NoTrashInfo))
       => /\ rcall'[1].op \in {"create_trashinfo", "trash", "restore",
                               "delete_forever", "get_size"}
          /\ rcall'[1].e \notin {"", "panic"}
          /\ fs' = fs]_vars

\* trash() was called for /h/a with a files_entry and no trashinfo: the
\* call returned an error and /h/a is where it was
C23_Witness ==
    /\ rcall # <<>>
    /\ rcall[1].op = "trash"
    /\ rcall[1].tf.original_file = P_a
    /\ rcall[1].tf.files_entry # Unset /\ rcall[1].tf.trashinfo = NoTrashInfo
    /\ rcall[1].e # ""
    /\ fs = rcall[1].before
    /\ Has(fs, P_a) /\ ~Has(fs, rcall[1].tf.files_entry)

----------------------------------------------------------------------------
(* TrashInfo on its own: a .trashinfo file of any content is read with     *)
(* TrashInfo::from; a record is made with TrashInfo::new at a time of the  *)
(* local clock and its date read back with get_deletion_date.              *)

\* i32 division and remainder, which truncate towards zero
Quot(a, b) == IF a < 0 THEN 0 - ((0 - a) \div b) ELSE a \div b

Rem(a, b) == a - b * Quot(a, b)

\* {:02} of an i32: the sign is part of the width
Width2(n) == IF n < 0 THEN <<"-", ToString(0 - n)>> ELSE TwoDigits(n)

\* the times of the clock, in seconds; the parts of a second, in ms
Times == {1700000000, 1700000059}

Fractions == {0, 500}

\* the UTC offsets of the local time zone, in minutes
Offsets == {0 - 300, 0 - 210, 0, 60, 330}

\* str::parse::<DateTime<Local>>: an RFC 3339 date and time with Z or a
\* numeric offset of two digits each, as the same instant of the local
\* zone (at offset local_off); anything else is an error
parse_DateTime(s, local_off) ==
    LET NoDate == [e |-> "ParseError", date |-> [t |-> 0, off |-> 0, ms |-> 0]]
        IsTime(x) == \E t \in Times : x = ToString(t)
        TimeOf(x) == CHOOSE t \in Times : x = ToString(t)
        IsTwo(x, max) == \E n \in 0..max : <<x>> = TwoDigits(n)
        TwoOf(x) == CHOOSE n \in 0..59 : <<x>> = TwoDigits(n)
        Instant(t, off) == [e |-> "",
                       date |-> [t |-> t - 60 * off + 60 * local_off,
                                 off |-> local_off, ms |-> 0]]
    IN  IF Len(s) = 2 /\ IsTime(s[1]) /\ s[2] \in {"Z", "z"}
        THEN Instant(TimeOf(s[1]), 0)
        ELSE IF /\ Len(s) = 5 /\ IsTime(s[1]) /\ s[2] \in {"+", "-"}
                /\ IsTwo(s[3], 23) /\ s[4] = ":" /\ IsTwo(s[5], 59)
        THEN Instant(TimeOf(s[1]),
                (IF s[2] = "-" THEN 0 - 1 ELSE 1) * (60 * TwoOf(s[3]) + TwoOf(s[5])))
        ELSE NoDate

\* TrashInfo::get_deletion_date with Local::now() = now; e = "panic" is the
\* unwrap of the parse
get_deletion_date(self, now) ==
    LET deletion_date == StripOffset(self.deletion_date)
        diff_mins == Quot(60 * now.off, 60)
        diff_hours == Quot(diff_mins, 60)
        diff_mins_remaining == Rem(diff_mins, 60)
        deletion_datetime == deletion_date \o <<"+">> \o Width2(diff_hours)
                             \o <<":">> \o Width2(diff_mins_remaining)
        parsed == parse_DateTime(deletion_datetime, now.off)
    IN  IF parsed.e # "" THEN [e |-> "panic", date |-> parsed.date] ELSE parsed

n_info1 == <<"a", ".trashinfo">>

P_info1 == P_homeInfo \o <<n_info1>>

\* the lines a .trashinfo may have
InfoLines ==
    {<<"[Trash Info]">>, <<" ", "[Trash Info]", "\r">>, <<"Path=", "/h/a">>,
     <<"DeletionDate=", "1700000000">>, <<>>, <<"x">>}

MaxLines == 3

RECURSIVE JoinLines(_)
JoinLines(ls) ==
    IF Len(ls) = 0 THEN <<>>
    ELSE IF Len(ls) = 1 THEN ls[1]
    ELSE ls[1] \o <<"\n">> \o JoinLines(Tail(ls))

\* the text create_file writes for /h/a
WrittenInfo == TrashInfoText(TrashInfo_new(P_info1, to_str(P_a), Env0.now))

InfoContents ==
    {JoinLines(ls) : ls \in UNION {[1..n -> InfoLines] : n \in 1..MaxLines}}
    \cup {WrittenInfo}

Nows == [t : Times, off : Offsets, ms : Fractions]

\* a .trashinfo of any content with the clock of Env0, or the .trashinfo of
\* /h/a with any clock
InitInfo ==
    /\ \E c \in InfoContents, now \in Nows :
          /\ c = WrittenInfo \/ (now.t = Env0.now.t /\ now.off = 0 /\ now.ms = 0)
          /\ fs = (P_info1 :> FileNode(TRUE, c)) @@ (P_homeFiles :> NewDir)
                  @@ (P_homeInfo :> NewDir) @@ Fs0
          /\ environ = [Env0 EXCEPT !.now = now]
    /\ mountinfo = Mounts
    /\ cli = [p \in Procs |-> IdleCli]
    /\ tui = NoTui
    /\ rcall = <<>>

InfoFrom ==
    /\ rcall = <<>>
    /\ rcall' = <<[op |-> "from", e |-> TrashInfo_from(fs, P_info1).e,
                   ti |-> TrashInfo_from(fs, P_info1).ti]>>
    /\ UNCHANGED <<fs, mountinfo, environ, cli, tui>>

InfoNew ==
    /\ rcall = <<>>
    /\ rcall' = <<[op |-> "new", e |-> "", now |-> environ.now,
                   ti |-> TrashInfo_new(P_info1, to_str(P_a), environ.now)]>>
    /\ UNCHANGED <<fs, mountinfo, environ, cli, tui>>

\* the time zone of the machine changes
InfoZone(off) ==
    /\ Len(rcall) = 1 /\ rcall[1].op = "new"
    /\ environ' = [environ EXCEPT !.now.off = off]
    /\ UNCHANGED <<fs, mountinfo, cli, tui, rcall>>

InfoGetDeletionDate ==
    /\ Len(rcall) = 1 /\ rcall[1].op = "new"
    /\ rcall' = Append(rcall,
                    [op |-> "get_deletion_date", now |-> environ.now,
                     e |-> get_deletion_date(rcall[1].ti, environ.now).e,
                     date |-> get_deletion_date(rcall[1].ti, environ.now).date])
    /\ UNCHANGED <<fs, mountinfo, environ, cli, tui>>

NextInfo ==
    \/ InfoFrom
    \/ InfoNew
    \/ \E off \in Offsets : InfoZone(off)
    \/ InfoGetDeletionDate

SpecInfo == InitInfo /\ [][NextInfo]_vars

\* the first three lines of the text are the header, a Path= line and a
\* DeletionDate= line
ThreeLines(c) ==
    LET ls == split_lines(c) IN
    /\ Len(ls) >= 3
    /\ trim(ls[1]) = <<"[Trash Info]">>
    /\ Len(ls[2]) > 0 /\ ls[2][1] = "Path="
    /\ Len(ls[3]) > 0 /\ ls[3][1] = "DeletionDate="

\* C24: TrashInfo::from of a file whose text does not have the three lines
\* [Trash Info], Path=..., DeletionDate=... in this order returns an error:
\* it neither panics nor returns a record, also for a text of fewer than
\* three lines.
C24_InvalidContentIsError ==
    (rcall # <<>> /\ rcall[1].op = "from" /\ ~ThreeLines(fs[P_info1].c))
        => rcall[1].e \notin {"", "panic"}

\* C25: the DeletionDate that TrashInfo::new stores is the naive local
\* timestamp of the deletion time, with no offset after it, whatever the
\* UTC offset of the local zone is: positive, zero or negative.
C25_DateHasNoOffset ==
    (rcall # <<>> /\ rcall[1].op = "new")
        => rcall[1].ti.deletion_date = <<ToString(rcall[1].now.t)>>

\* C26: when the local UTC offset at the time of reading is the one of the
\* time of deletion, get_deletion_date of the record TrashInfo::new made at
\* time t returns t without its part of a second, for every offset.
C26_DateReadBack ==
    (Len(rcall) = 2 /\ rcall[2].op = "get_deletion_date"
     /\ rcall[2].now.off = rcall[1].now.off)
        => /\ rcall[2].e = ""
           /\ rcall[2].date = [t |-> rcall[1].now.t, off |-> rcall[1].now.off, ms |-> 0]

\* the Path of the .trashinfo at path in f, as a path
RecordedPath(f, path) == get_original_path(TrashInfo_from(f, path).ti)

\* C27: the Path written to a .trashinfo is the absolute original path of
\* the item when its root is the home trash, and the original path relative
\* to the mount point when its root is a .Trash/$uid or a .Trash-$uid.
C27_PathAbsoluteOrRelative ==
    [][\A p \in Procs :
         InfoWritten(p) =>
            LET tf == cli[p].trash_file
                root == cli[p].trash_dir
                recorded == RecordedPath(fs', tf.trashinfo.path)
            IN  /\ TrashInfo_from(fs', tf.trashinfo.path).e = ""
                /\ IF root.root_type = "Home"
                   THEN is_absolute(recorded) /\ recorded = tf.original_file
                   ELSE /\ root.root_type \in {"TopDirAdmin", "TopDirUser"}
                        /\ ~is_absolute(recorded)
                        /\ root.device.mount_point \o recorded = tf.original_file]_vars

\* /m/x was trashed to /m/.Trash-1000 and its .trashinfo has Path=x
C27_Witness ==
    /\ cli[1].moved
    /\ cli[1].trash_file.original_file = P_mx
    /\ cli[1].trash_dir.root_type = "TopDirUser"
    /\ cli[1].trash_dir.device.mount_point = P_m
    /\ RecordedPath(fs, cli[1].trash_file.trashinfo.path) = <<n_x>>

----------------------------------------------------------------------------
(* The roots of the trash bin TUI: get_all_trash_roots on its own, and the *)
(* list get_trashed_files of restore.rs builds from it.                    *)

\* the start of get_trashed_files of restore.rs: the trash of the home
\* directory resolved, the roots of the mounts, the first pushed after
\* them; e = "panic" is one of the two expect() calls.  From its last step
\* back:
RootsOfMounts(user_trash_dir, trash_roots) ==
    IF trash_roots.e # "" THEN trash_roots
    ELSE [e |-> "", fs |-> trash_roots.fs,
          roots |-> trash_roots.roots \o <<user_trash_dir.dir>>]

RootsOfHome(mi, env, user_trash_dir) ==
    IF user_trash_dir.e # "" THEN [e |-> "panic", fs |-> user_trash_dir.fs, roots |-> <<>>]
    ELSE RootsOfMounts(user_trash_dir, get_all_trash_roots(user_trash_dir.fs, mi, env))

trash_roots_listed(f, mi, env) ==
    IF get_home_dir(env).e # "" THEN [e |-> "panic", fs |-> f, roots |-> <<>>]
    ELSE RootsOfHome(mi, env, resolve_for_file(f, mi, env, get_home_dir(env).path))

\* the home directory is on the root device or on the one of /m
HomeOptions == {P_h, P_mx}

InitRoots ==
    /\ \E admin \in AdminOptions, user \in UserOptions, w \in BOOLEAN :
          fs = admin @@ user @@ (P_m :> DirNode(w, FALSE, <<>>)) @@ Fs0
    /\ mountinfo \in {Mounts, MountsSubvol}
    /\ \E x \in XdgOptions, h \in HomeOptions :
          environ = [Env0 EXCEPT !.XDG_DATA_HOME = x, !.HOME = h]
    /\ cli = [p \in Procs |-> IdleCli]
    /\ tui = NoTui
    /\ rcall = <<>>

\* a call that returns a list of roots
RootsCalled(op, r) ==
    /\ fs' = r.fs
    /\ rcall' = <<[op |-> op, before |-> fs, e |-> r.e, roots |-> r.roots]>>
    /\ UNCHANGED <<mountinfo, environ, cli, tui>>

RootsDiscovered ==
    /\ rcall = <<>>
    /\ RootsCalled("get_all_trash_roots", get_all_trash_roots(fs, mountinfo, environ))

RootsListed ==
    /\ rcall = <<>>
    /\ RootsCalled("get_trashed_files", trash_roots_listed(fs, mountinfo, environ))

NextRoots ==
    \/ RootsDiscovered
    \/ RootsListed

SpecRoots == InitRoots /\ [][NextRoots]_vars

\* C28: get_all_trash_roots only finds the roots there are: it creates no
\* .Trash/$uid or .Trash-$uid on a mount and nothing inside one that is
\* there; the file system after the call is the one before it.
C28_DiscoveryCreatesNothing ==
    (rcall # <<>> /\ rcall[1].op = "get_all_trash_roots") => fs = rcall[1].before

\* C29: the list of roots that get_trashed_files of the TUI builds has the
\* home trash root $XDG_DATA_HOME/Trash in it, whatever devices $HOME and
\* $XDG_DATA_HOME are on.
C29_HomeRootListed ==
    (rcall # <<>> /\ rcall[1].op = "get_trashed_files" /\ rcall[1].e = "")
        => \E i \in 1..Len(rcall[1].roots) :
              /\ rcall[1].roots[i].home = XdgDataHome \o <<n_Trash>>
              /\ rcall[1].roots[i].root_type = "Home"

----------------------------------------------------------------------------
(* Empty bin in the TUI.                                                   *)

\* the loop of the empty bin dialog over App.trashed_files, from the file i
\* on: delete_forever of each, its error dropped; calls are the calls made
RECURSIVE EmptyBinFrom(_, _, _, _, _)
RECURSIVE EmptyBinDeleted(_, _, _, _, _, _)
\* the loop left at the first error
EmptyBinDeleted_until_error(mi, trashed_files, i, calls, f, r) ==
    IF r.e # ""
    THEN [fs |-> r.fs,
          calls |-> Append(calls, Call("delete_forever", trashed_files[i], f, r.e))]
    ELSE EmptyBinFrom(r.fs, mi, trashed_files, i + 1,
             Append(calls, Call("delete_forever", trashed_files[i], f, r.e)))

\* ... the file i deleted with the result r: on to the next file
EmptyBinDeleted(mi, trashed_files, i, calls, f, r) ==
    EmptyBinFrom(r.fs, mi, trashed_files, i + 1,
        Append(calls, Call("delete_forever", trashed_files[i], f, r.e)))

EmptyBinFrom(f, mi, trashed_files, i, calls) ==
    IF i > Len(trashed_files) THEN [fs |-> f, calls |-> calls]
    ELSE EmptyBinDeleted(mi, trashed_files, i, calls, f,
             delete_forever(f, mi, trashed_files[i]))

\* the bin emptied: the confirmation and the calls made, on to the refresh
Emptied(done) ==
    /\ fs' = done.fs
    /\ rcall' = <<Call("empty_bin", NoTrashFile, fs, "")>> \o done.calls
    /\ tui' = [tui EXCEPT !.state = "RefreshFileList"]

\* a key in the empty bin dialog; the toggle tests for the state
\* DeletionConfirmation, so it leaves the choice as it is.  rcall is what
\* the dialog did: nothing when it was left without a confirmation
TuiEmptyBinConfirmation(key) ==
    /\ tui.state = "EmptyBinConfirmation"
    /\ IF RenderPanics(tui)
       THEN tui' = Panicked(tui) /\ UNCHANGED <<fs, rcall>>
       ELSE CASE key = "Enter" /\ tui.choice = 0 ->
                   Emptied(EmptyBinFrom(fs, mountinfo, tui.trashed_files, 1, <<>>))
              [] key = "Enter" /\ tui.choice # 0 ->
                   /\ tui' = [tui EXCEPT !.state = "RefreshFileList"]
                   /\ rcall' = <<>>
                   /\ UNCHANGED fs
              [] key = "Esc" ->
                   /\ tui' = [tui EXCEPT !.state = "RefreshFileList"]
                   /\ rcall' = <<>>
                   /\ UNCHANGED fs
              [] OTHER -> UNCHANGED <<tui, fs, rcall>>
    /\ TuiOthers

\* the keys of the main screen and of the dialog
KeysMain == {"Down", "ShiftDelete"}

KeysEmpty == {"Tab", "Enter", "Esc"}

\* the home trash holds the directory p (with a file in it) and the file f;
\* the trash of /m holds the file k
TrashedFew ==
    HomeItem(n_p, DirNode(TRUE, FALSE, <<"dir p">>))
    @@ (P_homeFiles \o <<n_p, n_a>> :> FileNode(TRUE, <<"in p">>))
    @@ HomeItem(n_f, FileNode(TRUE, <<"file f">>))
    @@ (P_homeFiles :> NewDir) @@ (P_homeInfo :> NewDir)
    @@ UserItem(n_k, FileNode(TRUE, <<"first k">>))
    @@ (P_userTrash :> NewDir) @@ (P_userFiles :> NewDir) @@ (P_userInfo :> NewDir)

\* the machines, and the ones where files/ of the trash of /m, or info/ of
\* the home trash, may not be written
InitEmpty ==
    /\ \E m \in Machines, locked \in {NoFiles, P_userFiles :> DirNode(FALSE, FALSE, <<>>),
                                      P_homeInfo :> DirNode(FALSE, FALSE, <<>>)} :
          /\ fs = locked @@ m.index @@ m.others @@ TrashedFew @@ Fs0
          /\ mountinfo = m.mi
          /\ environ = [Env0 EXCEPT !.cwd = m.cwd]
    /\ cli = [p \in Procs |-> IdleCli]
    /\ tui = NoTui
    /\ rcall = <<>>

NextEmpty ==
    \/ \E overflow_checks \in BOOLEAN : TuiStart(overflow_checks)
    \/ TuiRefresh
    \/ \E key \in KeysMain : TuiMainScreen(key)
    \/ \E key \in KeysEmpty : TuiEmptyBinConfirmation(key)

SpecEmpty == InitEmpty /\ [][NextEmpty]_vars

----------------------------------------------------------------------------
(* sort_file_list by deletion date: the comparator and the sort.           *)

\* the deletion_date strings of one format compare as the times they print
DateStamp(deletion_date) == CHOOSE t \in Times : deletion_date = <<ToString(t)>>

\* the closure sort_file_list gives to sort_by for SortType::DeletionDate:
\* b's date against a's; on equal dates the answer is by a alone
cmp_deletion_date(f, a, b) ==
    IF DateStamp(b.trashinfo.deletion_date) < DateStamp(a.trashinfo.deletion_date)
    THEN "Less"
    ELSE IF DateStamp(b.trashinfo.deletion_date) > DateStamp(a.trashinfo.deletion_date)
    THEN "Greater"
    ELSE IF is_dir(f, a.files_entry) THEN "Greater" ELSE "Less"

\* slice::sort_by on a short list: each item in turn moves left past the
\* items it compares Less than
RECURSIVE insert_tail(_, _, _)
insert_tail(f, v, x) ==
    IF Len(v) = 0 \/ cmp_deletion_date(f, x, v[Len(v)]) # "Less" THEN Append(v, x)
    ELSE Append(insert_tail(f, SubSeq(v, 1, Len(v) - 1), x), v[Len(v)])

RECURSIVE sort_into(_, _, _, _)
sort_into(f, list, i, v) ==
    IF i > Len(list) THEN v
    ELSE sort_into(f, list, i + 1, insert_tail(f, v, list[i]))

sort_by(f, list) == sort_into(f, list, 1, <<>>)

\* the trashed items the list is drawn from: the directories p and q, the
\* files f and s, each with a deletion date of Times
SortNames == {n_p, n_q, n_f, n_s}

SortNode(name) ==
    IF name \in {n_p, n_q} THEN DirNode(TRUE, FALSE, <<>>) ELSE FileNode(TRUE, name)

SortItem(name, t) ==
    (P_homeFiles \o <<name>> :> SortNode(name))
    @@ (P_homeInfo \o <<name \o ext_trashinfo>> :>
            FileNode(TRUE, TrashInfoText(TrashInfo_new(Unset, to_str(P_h \o <<name>>),
                                                       [t |-> t, off |-> 0]))))

SortFs(when) ==
    SortItem(n_p, when[n_p]) @@ SortItem(n_q, when[n_q])
    @@ SortItem(n_f, when[n_f]) @@ SortItem(n_s, when[n_s])
    @@ (P_homeTrash :> NewDir) @@ (P_homeFiles :> NewDir) @@ (P_homeInfo :> NewDir)
    @@ Fs0

SortRoot(f) == TrashDirectory_from(f, P_homeTrash, NoDevice, "UserHome").dir

SortFile(f, name) == TrashFile_from(f, P_homeFiles \o <<name>>, SortRoot(f)).tf

\* the lists of two or three of the items, in every order
SortOrders ==
    {s \in [1..2 -> SortNames] \cup [1..3 -> SortNames] :
        \A i, j \in DOMAIN s : s[i] = s[j] => i = j}

InitSort ==
    /\ \E when \in [SortNames -> Times], s \in SortOrders :
          /\ fs = SortFs(when)
          /\ tui = [NoTui EXCEPT !.state = "RefreshFileList",
                                 !.trashed_files =
                                     [i \in DOMAIN s |-> SortFile(SortFs(when), s[i])]]
    /\ mountinfo = Mounts
    /\ environ = Env0
    /\ cli = [p \in Procs |-> IdleCli]
    /\ rcall = <<>>

\* main, RefreshFileList: sort_file_list(&mut app.trashed_files, &app.sort_type)
SortFileList ==
    /\ tui.state = "RefreshFileList"
    /\ tui.sort_type = "DeletionDate"
    /\ tui' = [tui EXCEPT !.trashed_files = sort_by(fs, @), !.state = "MainScreen"]
    /\ rcall' = <<[op |-> "sort_file_list", list |-> tui.trashed_files]>>
    /\ UNCHANGED <<fs, mountinfo, environ, cli>>

NextSort == SortFileList

SpecSort == InitSort /\ [][NextSort]_vars

\* the orders of a list that move only items of one deletion date
TiedOrders(list) ==
    {p \in Perms(Len(list)) :
        \A i \in 1..Len(list) :
            list[p[i]].trashinfo.deletion_date = list[i].trashinfo.deletion_date}

SortedList == rcall # <<>> /\ rcall[1].op = "sort_file_list"

\* C31: sorting the list by deletion date puts the newer item first, among
\* items of one deletion date no file before a directory, and leaves the same
\* list whatever the order of the tied items in the list it was given
C31_SortNewestThenDirs ==
    SortedList =>
        /\ \A i, j \in 1..Len(tui.trashed_files) :
              i < j =>
                  /\ DateStamp(tui.trashed_files[i].trashinfo.deletion_date)
                         >= DateStamp(tui.trashed_files[j].trashinfo.deletion_date)
                  /\ (tui.trashed_files[i].trashinfo.deletion_date
                          = tui.trashed_files[j].trashinfo.deletion_date
                      /\ is_dir(fs, tui.trashed_files[j].files_entry))
                         => is_dir(fs, tui.trashed_files[i].files_entry)
        /\ \A p \in TiedOrders(rcall[1].list) :
              sort_by(fs, [i \in 1..Len(rcall[1].list) |-> rcall[1].list[p[i]]])
                  = tui.trashed_files

\* the list of the directory p and the file f of one deletion date, sorted
C31_Counterexample ==
    ~(/\ SortedList
      /\ Len(tui.trashed_files) = 2
      /\ rcall[1].list[1].files_entry = P_homeFiles \o <<n_p>>
      /\ rcall[1].list[2].files_entry = P_homeFiles \o <<n_f>>
      /\ rcall[1].list[1].trashinfo.deletion_date = rcall[1].list[2].trashinfo.deletion_date
      /\ tui.trashed_files[1].files_entry = P_homeFiles \o <<n_f>>)

----------------------------------------------------------------------------
(* add_dirsizes_entry called by a client of the library, for the TrashFile *)
(* of an entry of files/ or of a file it is about to trash.                *)

ClientAddDirsizesEntry(dir, kind, o) ==
    rcall = <<>> /\ ClientCall("add_dirsizes_entry", dir, kind, o)

NextSizes ==
    \E dir \in {P_h, P_m}, kind \in ClientKinds, o \in ClientPaths :
        ClientAddDirsizesEntry(dir, kind, o)

SpecSizes == InitIndex /\ [][NextSizes]_vars

\* C32: add_dirsizes_entry of a trashed entry that is a regular file or a
\* link, also a link to a directory, returns Ok and leaves the
\* directorysizes of the root as it was
C32_OnlyRealDirectories ==
    [][(/\ rcall = <<>> /\ rcall' # <<>>
        /\ rcall'[1].op = "add_dirsizes_entry"
        /\ Has(fs, rcall'[1].tf.files_entry)
        /\ ~IsRealDir(fs, rcall'[1].tf.files_entry))
       => /\ rcall'[1].e = ""
          /\ Lstat(fs', IndexOf(rcall'[1].tf)) = Lstat(fs, IndexOf(rcall'[1].tf))]_vars

\* add_dirsizes_entry was called for the link l to the directory p, and the
\* index of the home trash has a line for l
C32_Counterexample ==
    ~(/\ rcall # <<>>
      /\ rcall[1].op = "add_dirsizes_entry" /\ rcall[1].e = ""
      /\ rcall[1].tf.files_entry = P_homeFiles \o <<n_l>>
      /\ is_symlink(rcall[1].before, P_homeFiles \o <<n_l>>)
      /\ ~HasLineFor(rcall[1].before, P_homeIndex, n_l)
      /\ HasLineFor(fs, P_homeIndex, n_l))

----------------------------------------------------------------------------
(* Args::parse of the trash CLI: the arguments after the program name.     *)

\* an argument is a text; the options the match knows
ArgEoo == <<"-", "-">>
OptInteractive == {<<"-", "i">>, <<"-", "-", "interactive">>}
OptVerbose == {<<"-", "v">>, <<"-", "-", "verbose">>}
OptHelp == {<<"-", "h">>, <<"-", "-", "help">>}
OptVersion == {<<"-", "V">>, <<"-", "-", "version">>}
OptBoth == {<<"-", "i", "v">>, <<"-", "v", "i">>}

NoArgs ==
    [e |-> "", interactive |-> FALSE, verbose |-> FALSE, help |-> FALSE,
     version |-> FALSE, file_names |-> <<>>, eoo |-> FALSE]

\* the body of the loop without the end of options: what follows "--" is
\* matched as what came before it
Args_parse_arg_no_eoo(a, arg) ==
    IF arg = ArgEoo THEN [a EXCEPT !.eoo = TRUE]
    ELSE IF arg \in OptInteractive THEN [a EXCEPT !.interactive = TRUE]
    ELSE IF arg \in OptVerbose THEN [a EXCEPT !.verbose = TRUE]
    ELSE IF arg \in OptHelp THEN [a EXCEPT !.help = TRUE]
    ELSE IF arg \in OptVersion THEN [a EXCEPT !.version = TRUE]
    ELSE IF arg \in OptBoth THEN [a EXCEPT !.verbose = TRUE, !.interactive = TRUE]
    ELSE IF Len(arg) > 0 /\ arg[1] = "-" THEN [a EXCEPT !.e = "invalid option"]
    ELSE [a EXCEPT !.file_names = Append(@, arg)]

\* the body of the loop for one argument
Args_parse_arg(a, arg) ==
    IF a.eoo THEN [a EXCEPT !.file_names = Append(@, arg)]
    ELSE IF arg = ArgEoo THEN [a EXCEPT !.eoo = TRUE]
    ELSE IF arg \in OptInteractive THEN [a EXCEPT !.interactive = TRUE]
    ELSE IF arg \in OptVerbose THEN [a EXCEPT !.verbose = TRUE]
    ELSE IF arg \in OptHelp THEN [a EXCEPT !.help = TRUE]
    ELSE IF arg \in OptVersion THEN [a EXCEPT !.version = TRUE]
    ELSE IF arg \in OptBoth THEN [a EXCEPT !.verbose = TRUE, !.interactive = TRUE]
    ELSE IF Len(arg) > 0 /\ arg[1] = "-" THEN [a EXCEPT !.e = "invalid option"]
    ELSE [a EXCEPT !.file_names = Append(@, arg)]

RECURSIVE Args_parse_from(_, _, _)
Args_parse_from(args, i, a) ==
    IF a.e # "" \/ i > Len(args) THEN a
    ELSE Args_parse_from(args, i + 1, Args_parse_arg(a, args[i]))

\* what the loop left, and the test for a missing operand
Args_parse_end(a) ==
    IF a.e # "" THEN a
    ELSE IF Len(a.file_names) = 0 /\ ~(a.help \/ a.version)
    THEN [a EXCEPT !.e = "missing operand"]
    ELSE a

Args_parse(args) ==
    IF Len(args) = 0 THEN [NoArgs EXCEPT !.e = "missing operand"]
    ELSE Args_parse_end(Args_parse_from(args, 1, NoArgs))

\* the arguments of the model: options, the end of options, an option the
\* match does not know, a lone "-", and the names a and b
ArgWords ==
    {ArgEoo, <<"-", "i">>, <<"-", "-", "verbose">>, <<"-", "h">>, <<"-", "V">>,
     <<"-", "v", "i">>, <<"-", "x">>, <<"-">>, <<"a">>, <<"b">>}

\* the longest argument list
MaxArgs == 3

ArgLists == UNION {[1..n -> ArgWords] : n \in 0..MaxArgs}

\* main: Args::parse(env::args().skip(1).collect())
ArgsParsed(args) ==
    /\ rcall = <<>>
    /\ rcall' = <<[op |-> "Args::parse", args |-> args, r |-> Args_parse(args)]>>
    /\ UNCHANGED <<fs, mountinfo, environ, cli, tui>>

NextArgs == \E args \in ArgLists : ArgsParsed(args)

InitArgs ==
    /\ fs = Fs0
    /\ mountinfo = Mounts
    /\ environ = Env0
    /\ cli = [p \in Procs |-> IdleCli]
    /\ tui = NoTui
    /\ rcall = <<>>

SpecArgs == InitArgs /\ [][NextArgs]_vars

\* the place of the first "--" of args, or one past its end
FirstEoo(args) ==
    IF \E i \in DOMAIN args : args[i] = ArgEoo
    THEN CHOOSE i \in DOMAIN args :
             args[i] = ArgEoo /\ \A j \in 1..(i - 1) : args[j] # ArgEoo
    ELSE Len(args) + 1

KnownOption(arg) ==
    arg \in OptInteractive \cup OptVerbose \cup OptHelp \cup OptVersion \cup OptBoth

StartsWithDash(arg) == Len(arg) > 0 /\ arg[1] = "-"

\* the file names the arguments give: those before the first "--" that do
\* not start with "-", then all after it
GivenNames(args) ==
    LET NoDash(arg) == ~StartsWithDash(arg) IN
    SelectSeq(SubSeq(args, 1, FirstEoo(args) - 1), NoDash)
    \o SubSeq(args, FirstEoo(args) + 1, Len(args))

HelpOrVersion(args) ==
    \E i \in 1..(FirstEoo(args) - 1) : args[i] \in OptHelp \cup OptVersion

----------------------------------------------------------------------------
(* The confirmation dialogs of the restore TUI, key by key: rcall begins   *)
(* with the key event and the App it came to, then the calls it made.      *)

\* the keys of the toggle arm of the three dialogs
ToggleKeys == {"Left", "Right", "l", "h", "Tab"}

KeysDialog == ToggleKeys \cup {"Enter", "Esc", "q"}

Dialogs == {"RestoreConfirmation", "DeletionConfirmation", "EmptyBinConfirmation"}

\* the toggle arm that names the state of its own dialog
toggle_choice_own_state(t) == [t EXCEPT !.choice = IF t.choice = 0 THEN 1 ELSE 0]

\* the toggle arm: `if let AppState::<dialog>(choice) = &mut self.state`.
\* The arm of RestoreConfirmation and of DeletionConfirmation names its own
\* state; the arm of EmptyBinConfirmation names DeletionConfirmation, which
\* self.state is not
toggle_choice(t) ==
    IF t.state \in {"RestoreConfirmation", "DeletionConfirmation"}
    THEN [t EXCEPT !.choice = IF t.choice = 0 THEN 1 ELSE 0]
    ELSE t

DialogOut(t, f, calls) == [tui |-> t, fs |-> f, calls |-> calls]

\* Enter with Yes selected in the restore or the deletion dialog: expect()
DialogCalled(t, op, tf, f, r) ==
    DialogOut(IF r.e # "" THEN Panicked(t) ELSE [t EXCEPT !.state = "RefreshFileList"],
              r.fs, <<Call(op, tf, f, r.e)>>)

\* Enter with Yes selected in the empty bin dialog
DialogEmptied(t, done) ==
    DialogOut([t EXCEPT !.state = "RefreshFileList"], done.fs, done.calls)

DialogConfirmed(t, f, mi, env) ==
    CASE t.state = "RestoreConfirmation" ->
           DialogCalled(t, "restore", t.trashed_files[t.selected + 1], f,
                        restore(f, mi, env, t.trashed_files[t.selected + 1]))
      [] t.state = "DeletionConfirmation" ->
           DialogCalled(t, "delete_forever", t.trashed_files[t.selected + 1], f,
                        delete_forever(f, mi, t.trashed_files[t.selected + 1]))
      [] OTHER -> DialogEmptied(t, EmptyBinFrom(f, mi, t.trashed_files, 1, <<>>))

\* handle_input in a dialog
handle_dialog(t, f, mi, env, key) ==
    IF key \in ToggleKeys THEN DialogOut(toggle_choice(t), f, <<>>)
    ELSE IF key = "Enter" /\ t.choice = 0 THEN DialogConfirmed(t, f, mi, env)
    ELSE IF key \in {"Enter", "Esc", "q"}
    THEN DialogOut([t EXCEPT !.state = "RefreshFileList"], f, <<>>)
    ELSE DialogOut(t, f, <<>>)

KeyEvent(key, t, f) == [op |-> "key", key |-> key, tui |-> t, before |-> f]

DialogDone(key, out) ==
    /\ tui' = out.tui
    /\ fs' = out.fs
    /\ rcall' = <<KeyEvent(key, tui, fs)>> \o out.calls

\* a key in one of the dialogs
TuiDialogKey(key) ==
    /\ tui.state \in Dialogs
    /\ IF RenderPanics(tui)
       THEN tui' = Panicked(tui) /\ UNCHANGED <<fs, rcall>>
       ELSE DialogDone(key, handle_dialog(tui, fs, mountinfo, environ, key))
    /\ TuiOthers

\* the keys of the main screen that open a dialog
KeysOpen == {"Enter", "Delete", "ShiftDelete"}

NextDialog ==
    \/ \E overflow_checks \in BOOLEAN : TuiStart(overflow_checks)
    \/ TuiRefresh
    \/ \E key \in KeysOpen : TuiMainScreen(key)
    \/ \E key \in KeysDialog : TuiDialogKey(key)

InitDialog ==
    /\ \E m \in Machines :
          /\ fs = m.index @@ m.others @@ TrashedFew @@ Fs0
          /\ mountinfo = m.mi
          /\ environ = [Env0 EXCEPT !.cwd = m.cwd]
    /\ cli = [p \in Procs |-> IdleCli]
    /\ tui = NoTui
    /\ rcall = <<>>

SpecDialog == InitDialog /\ [][NextDialog]_vars

\* the step is the key event `key` handled in a dialog
KeyHandled(keys) ==
    /\ rcall' # rcall
    /\ rcall'[1].op = "key" /\ rcall'[1].key \in keys
    /\ tui.state \in Dialogs

\* C34: in the restore, the deletion and the empty bin dialog the keys Left,
\* Right, h, l and Tab change the selected button to the other one, and
\* Enter with Cancel selected calls no restore and no delete_forever and
\* leaves the file system as it was
C34_DialogToggleAndCancel ==
    [][/\ KeyHandled(ToggleKeys)
          => /\ tui'.state = tui.state
             /\ tui'.choice = 1 - tui.choice
             /\ fs' = fs
       /\ (KeyHandled({"Enter"}) /\ tui.choice = 1)
          => /\ Len(rcall') = 1
             /\ fs' = fs]_vars

\* Tab was pressed in the empty bin dialog with Yes selected, and Yes is
\* selected still
C34_Counterexample ==
    ~(/\ rcall # <<>> /\ rcall[1].op = "key" /\ rcall[1].key = "Tab"
      /\ rcall[1].tui.state = "EmptyBinConfirmation"
      /\ rcall[1].tui.choice = 0
      /\ tui.state = "EmptyBinConfirmation"
      /\ tui.choice = 0)

----------------------------------------------------------------------------
(* Runs of the trash CLI next to clients of the library that restore and   *)
(* delete for ever, system call by system call, on the home trash.  rcall  *)
(* holds the clients: the TrashFile each got from a listing, the operation *)
(* it is in and how far it has come.                                       *)

Holders == {1, 2}

\* seen is the entry as it was when the client listed it (kept for the
\* properties; the code keeps the paths alone)
IdleHolder ==
    [op |-> "none", tf |-> NoTrashFile, pc |-> "idle", is_dir |-> FALSE, e |-> "",
     seen |-> NoNode]

\* restore and delete_forever, call by call: the test of the entry ...
holder_is_dir(f, tf) == IsRealDir(f, tf.files_entry)

\* restore that removes the .trashinfo first
restore_rename_info_first(f, mi, env, tf) == remove_file(f, tf.trashinfo.path)

\* ... the rename of restore ...
restore_rename(f, mi, env, tf) ==
    rename(f, mi, tf.files_entry, to_abs_path(env, tf.original_file))

\* ... the removal of delete_forever ...
delete_forever_remove(f, tf, is_dir_entry) ==
    IF is_dir_entry THEN remove_dir_all(f, tf.files_entry)
    ELSE remove_file(f, tf.files_entry)

\* ... the removal of the .trashinfo ...
remove_trashinfo(f, tf) == remove_file(f, tf.trashinfo.path)

HolderOthers == UNCHANGED <<mountinfo, environ, cli, tui>>

\* the client h is at pc; the step leaves it as `to` and the file system as g
HolderAt(h, pc) == rcall[h].pc = pc

HolderTo(h, to, g) ==
    /\ rcall' = [rcall EXCEPT ![h] = to]
    /\ fs' = g
    /\ HolderOthers

\* what a call leaves: the next pc, or the error and the end
HolderAfter(h, r, pc) ==
    HolderTo(h, IF r.e # "" THEN [rcall[h] EXCEPT !.pc = "failed", !.e = r.e]
                ELSE [rcall[h] EXCEPT !.pc = pc],
             r.fs)

\* TrashFile::from of the entry `name` of the root that resolve_for_file found
HolderListed(h, name, root) ==
    /\ root.e = ""
    /\ Has(root.fs, root.dir.files \o <<name>>)
    /\ TrashFile_from(root.fs, root.dir.files \o <<name>>, root.dir).e = ""
    /\ HolderTo(h, [IdleHolder EXCEPT
                      !.pc = "held",
                      !.seen = root.fs[root.dir.files \o <<name>>],
                      !.tf = TrashFile_from(root.fs, root.dir.files \o <<name>>,
                                            root.dir).tf],
                root.fs)

HolderList(h, name) ==
    /\ HolderAt(h, "idle")
    /\ HolderListed(h, name, resolve_for_file(fs, mountinfo, environ, P_h))

\* restore() or delete_forever() is called: is_symlink, is_dir
HolderTest(h, op) ==
    /\ HolderAt(h, "held")
    /\ HolderTo(h, [rcall[h] EXCEPT !.op = op, !.pc = "tested",
                                    !.is_dir = holder_is_dir(fs, rcall[h].tf)],
                fs)

\* rename, or remove_dir_all / remove_file, of the entry
HolderEntry(h) ==
    /\ HolderAt(h, "tested")
    /\ HolderAfter(h, IF rcall[h].op = "restore"
                      THEN restore_rename(fs, mountinfo, environ, rcall[h].tf)
                      ELSE delete_forever_remove(fs, rcall[h].tf, rcall[h].is_dir),
                   "entry gone")

\* remove_file of the .trashinfo
HolderInfo(h) ==
    /\ HolderAt(h, "entry gone")
    /\ HolderAfter(h, remove_trashinfo(fs, rcall[h].tf),
                   IF rcall[h].is_dir THEN "info gone" ELSE "done")

\* cleanup_dirsizes for a directory
HolderCleanup(h) ==
    /\ HolderAt(h, "info gone")
    /\ HolderAfter(h, cleanup_dirsizes(fs, mountinfo, rcall[h].tf.trashroot), "done")

\* the home trash holds the file a and the directory d, trashed from /h/a
\* and /h/d, where a file and a directory of these names are again
TrashedTwice ==
    HomeItem(n_a, FileNode(TRUE, <<"old a">>))
    @@ HomeItem(n_d, DirNode(TRUE, FALSE, <<"old d">>))
    @@ (P_homeFiles :> NewDir) @@ (P_homeInfo :> NewDir)

InitMix ==
    /\ \E index \in {NoFiles, P_homeIndex :> FileNode(TRUE, IndexText(<<n_d>>))} :
          fs = index @@ TrashedTwice @@ Fs0
    /\ mountinfo = Mounts
    /\ environ = Env0
    /\ cli = [p \in Procs |-> IdleCli]
    /\ tui = NoTui
    /\ rcall = [h \in Holders |-> IdleHolder]

\* the operands of the two runs of the CLI: both may trash /h/a
OperandsMix == {<<1, <<P_a>>>>, <<1, <<P_d>>>>, <<2, <<P_a>>>>}

NextMix ==
    \/ \E run \in OperandsMix : CliStart(run[1], run[2], FALSE)
    \/ \E p \in Procs : CliRun(p)
    \/ \E h \in Holders, name \in {n_a, n_d} : HolderList(h, name)
    \/ \E h \in Holders, op \in {"restore", "delete_forever"} : HolderTest(h, op)
    \/ \E h \in Holders : HolderEntry(h)
    \/ \E h \in Holders : HolderInfo(h)
    \/ \E h \in Holders : HolderCleanup(h)

SpecMix == InitMix /\ [][NextMix]_vars

\* C35: in every state that runs of trash, restore and delete_forever on one
\* root reach, in any interleaving of their system calls, every entry of
\* files/ has its .trashinfo in info/
C35_EntryHasTrashinfo ==
    \A q \in DirEntries(fs, P_homeFiles) :
        is_file(fs, P_homeInfo \o <<file_name(q) \o ext_trashinfo>>)

\* a client has restored the old a; a run of the CLI has trashed the new
\* /h/a under the name a again; the other client, which still holds the
\* TrashFile of the old a, has removed that entry and not yet its .trashinfo
C35_Witness ==
    /\ rcall[1].pc = "done" /\ rcall[1].op = "restore"
    /\ rcall[1].tf.files_entry = P_homeFiles \o <<n_a>>
    /\ cli[1].moved /\ cli[1].trash_file.files_entry = P_homeFiles \o <<n_a>>
    /\ rcall[2].pc = "entry gone" /\ rcall[2].op = "delete_forever"
    /\ rcall[2].tf.files_entry = P_homeFiles \o <<n_a>>
    /\ ~Has(fs, P_homeFiles \o <<n_a>>)
    /\ is_file(fs, P_homeInfo \o <<n_a \o ext_trashinfo>>)

\* the step is the rename or the removal of the entry by the client h, whose
\* files_entry names another item than the one it listed
StaleEntryStep(h) ==
    /\ rcall[h].pc = "tested" /\ rcall'[h] # rcall[h]
    /\ Has(fs, rcall[h].tf.files_entry)
    /\ fs[rcall[h].tf.files_entry] # rcall[h].seen

\* C37 as the specification states it: restore() and delete_forever() of a
\* TrashFile from a listing act on the listed item alone; when the item was
\* restored or purged since and another one trashed under its name, the
\* call moves and deletes nothing.
C37_StaleLeavesOtherItem ==
    [][\A h \in Holders : StaleEntryStep(h) => fs' = fs]_vars

\* the client 2 listed the old a; the old a was restored, the new /h/a
\* trashed under the name a; delete_forever of client 2 removed the new one
C37_Counterexample ==
    ~(/\ rcall[2].pc = "done" /\ rcall[2].op = "delete_forever"
      /\ rcall[2].seen = FileNode(TRUE, <<"old a">>)
      /\ rcall[1].pc = "done" /\ rcall[1].op = "restore"
      /\ cli[1].moved /\ cli[1].trash_file.files_entry = P_homeFiles \o <<n_a>>
      /\ cli[1].exit = EXITCODE_OK
      /\ ~Has(fs, P_homeFiles \o <<n_a>>)
      /\ ~Has(fs, P_a))

\* C36 as the specification states it: in the restore TUI, after any keys
\* and refreshes of the list, the cursor is in range whenever the list is
\* not empty: selected is below the length of the list and scroll_offset is
\* not above selected.
C36_NavigationInRange ==
    (tui.state \in {"MainScreen", "RestoreConfirmation", "DeletionConfirmation"}
     /\ Len(tui.trashed_files) > 0)
    => /\ tui.selected < Len(tui.trashed_files)
       /\ tui.scroll_offset <= tui.selected

\* the last item of the list was selected and deleted for ever: the main
\* screen shows the list that is left, with selected at its length
C36_Counterexample ==
    ~(/\ tui.state = "MainScreen"
      /\ rcall # <<>> /\ rcall[1].op = "delete_forever" /\ rcall[1].e = ""
      /\ Len(tui.trashed_files) > 0
      /\ ~Has(fs, rcall[1].tf.files_entry)
      /\ tui.selected = Len(tui.trashed_files))

----------------------------------------------------------------------------
(* The trash CLI on a machine where /m/x of the device 8:17 is also        *)
(* mounted on /r (mount --bind /m/x /r): two lines of mountinfo with one   *)
(* major:minor, /m before /r.                                              *)

MountsBind ==
    <<Mounts[1], Mounts[2],
      Mount(<<"/", "dev", "/", "sdb1">>, 8, 17, makedev(8, 17), P_r)>>

P_ra == P_r \o <<n_a>>

\* /r shows what /m/x holds
BindFs ==
    [q \in (DOMAIN Fs0 \ {P_rx, P_rxa}) \cup {P_ra} |->
        IF q = P_ra THEN Fs0[P_mxa] ELSE IF q = P_r THEN Fs0[P_mx] ELSE Fs0[q]]

OperandsBind ==
    {<<P_ra>>, <<P_mxa>>, <<P_mx>>, <<P_a>>, <<P_d>>, <<P_rxa>>, <<P_a, P_ra>>}

InitBind ==
    /\ \E mi \in {Mounts, MountsBind} :
          /\ mountinfo = mi
          /\ fs = IF mi = MountsBind THEN BindFs ELSE Fs0
    /\ environ = Env0
    /\ cli = [p \in Procs |-> IdleCli]
    /\ tui = NoTui
    /\ rcall = <<>>

NextBind ==
    \/ \E names \in OperandsBind, interactive \in BOOLEAN : CliStart(1, names, interactive)
    \/ CliRun(1)

SpecBind == InitBind /\ [][NextBind]_vars

\* C38 as the specification states it: for an operand on another device
\* than the home trash, the mount point that resolve_mount chose is a prefix
\* of the absolute path of the operand, also when lines of mountinfo share
\* the major:minor, and no run ends because the Path relative to the mount
\* point cannot be computed.
C38_MountPointIsPrefix ==
    \A p \in Procs :
        /\ (cli[p].trash_dir # NoTrashDirectory /\ cli[p].trash_dir.root_type # "Home")
           => starts_with(cli[p].abs_file, cli[p].trash_dir.device.mount_point)
        /\ cli[p].why # "prefix not found"

\* the run for /r/a, a file of the device mounted on /m and on /r, ended
\* with the trash of /m resolved, /r/a in place and "prefix not found"
C38_Counterexample ==
    ~(/\ cli[1].abs_file = P_ra
      /\ cli[1].trash_dir.device.mount_point = P_m
      /\ cli[1].exit = EXITCODE_UNSUPPORTED
      /\ cli[1].why = "prefix not found"
      /\ Has(fs, P_ra))

----------------------------------------------------------------------------
(* One run of the trash CLI with several operands.                         *)

\* a file after it: one that can be trashed, one on /r that may not be
\* deleted, one that is not there, the trash itself; -i with the answers
OperandsRun ==
    {<<P_a, P_rxa, P_d>>, <<P_d, <<n_gone>>, P_a>>, <<P_mxa, P_homeTrash, P_a>>,
     <<P_a, P_d, P_mxa>>, <<P_rx, P_a>>, <<P_d, P_xdg, P_mxa>>}

NextRun ==
    \/ \E names \in OperandsRun, interactive \in BOOLEAN : CliStart(1, names, interactive)
    \/ CliRun(1)

SpecRun == Init /\ [][NextRun]_vars

\* the place of the operand j of process p
OperandPath(p, j) == to_abs_path(environ, cli[p].file_names[j])

\* the run of process p has come to an operand
InLoop(p) == cli[p].exit = Running /\ cli[p].i >= 1

\* process p has moved the operand at hand, before the step or by it
MovedBy(p) ==
    \/ cli[p].moved
    \/ Has(fs, OperandPath(p, cli[p].i)) /\ ~Has(fs', OperandPath(p, cli[p].i))

\* C39: a run of the trash CLI handles its operands in order and stops at
\* the first one that is refused, fails or is declined.  It goes on to the
\* next operand only when the one at hand is in files/ and no more at its
\* place; no step changes a later operand, and none changes the operand at
\* hand but the move of it; once the run has ended it does nothing; it ends
\* after a move only with the code of success, at its last operand.
C39_StopsAtFirstRefused ==
    [][\A p \in Procs :
          /\ (InLoop(p) /\ cli'[p].i # cli[p].i)
             => /\ cli'[p].i = cli[p].i + 1
                /\ ~Has(fs', OperandPath(p, cli[p].i))
                /\ Has(fs', cli[p].trash_file.files_entry)
          /\ (InLoop(p) /\ cli'[p] # cli[p])
             => /\ \A j \in (cli[p].i + 1)..Len(cli[p].file_names) :
                      Lstat(fs', OperandPath(p, j)) = Lstat(fs, OperandPath(p, j))
                /\ Lstat(fs', OperandPath(p, cli[p].i)) # Lstat(fs, OperandPath(p, cli[p].i))
                   => /\ ~cli[p].moved
                      /\ Has(fs', cli[p].trash_file.files_entry)
                /\ (cli'[p].exit # Running /\ MovedBy(p))
                   => /\ cli'[p].exit = EXITCODE_OK
                      /\ cli[p].i = Len(cli[p].file_names)
          /\ cli[p].exit # Running => (cli'[p] = cli[p] /\ fs' = fs)]_vars

\* the run for /h/a, /r/x/a and /h/d trashed /h/a and ended at /r/x/a,
\* which may not be deleted: /r/x/a and /h/d are where they were
C39_Witness ==
    /\ cli[1].file_names = <<P_a, P_rxa, P_d>>
    /\ cli[1].exit = EXITCODE_UNSUPPORTED
    /\ cli[1].i = 2
    /\ ~Has(fs, P_a) /\ Has(fs, P_homeFiles \o <<n_a>>)
    /\ Has(fs, P_rxa) /\ Has(fs, P_d)
    /\ DirEntries(fs, P_homeFiles) = {P_homeFiles \o <<n_a>>}

\* ---------------------------------------------------------------------
\* Listing the trash (TUI start-up and every refresh): get_trashed_files
\* over a home trash and a user trash of /m whose entries have a valid
\* .trashinfo, none, a directory in its place, or damaged text.

ListTexts(name) ==
    {HomeInfoText(name),
     JoinLines(<<<<"[Trash]">>, <<"Path=", "/h/a">>, <<"DeletionDate=", "1700000000">>>>),
     JoinLines(<<<<"[Trash Info]">>, <<"Path=", "/h/a">>, <<"x">>>>),
     <<"[Trash Info]">>}

ListInfoOptions(info, name) ==
    {NoFiles, info :> NewDir}
    \cup {info :> FileNode(TRUE, c) : c \in ListTexts(name)}

ListEntryOptions(files, info, name, node) ==
    {NoFiles} \cup
    {(files \o <<name>> :> node) @@ i :
        i \in ListInfoOptions(info \o <<name \o ext_trashinfo>>, name)}

InitList ==
    /\ \E p \in ListEntryOptions(P_homeFiles, P_homeInfo, n_p,
                                 DirNode(TRUE, FALSE, <<"dir p">>)),
          q \in ListEntryOptions(P_homeFiles, P_homeInfo, n_f,
                                 FileNode(TRUE, <<"file f">>)),
          k \in ListEntryOptions(P_userFiles, P_userInfo, n_k,
                                 FileNode(TRUE, <<"first k">>)) :
          fs = p @@ q @@ k
               @@ (P_homeFiles \o <<n_p, n_a>> :> FileNode(TRUE, <<"in p">>))
               @@ (P_homeInfo \o <<n_q \o ext_trashinfo>> :>
                       FileNode(TRUE, HomeInfoText(n_q)))
               @@ (P_homeFiles :> NewDir) @@ (P_homeInfo :> NewDir)
               @@ (P_userTrash :> NewDir) @@ (P_userFiles :> NewDir)
               @@ (P_userInfo :> NewDir)
               @@ Fs0
    /\ mountinfo = Mounts
    /\ \E x \in XdgOptions, h \in HomeOptions :
          environ = [Env0 EXCEPT !.XDG_DATA_HOME = x, !.HOME = h]
    /\ cli = [p \in Procs |-> IdleCli]
    /\ tui = NoTui
    /\ rcall = <<>>

ListCalled(r) ==
    /\ fs' = r.fs
    /\ rcall' = <<[op |-> "get_trashed_files", before |-> fs,
                   e |-> r.e, files |-> r.files]>>
    /\ UNCHANGED <<mountinfo, environ, cli, tui>>

ListFiles ==
    /\ rcall = <<>>
    /\ ListCalled(get_trashed_files(fs, mountinfo, environ))

NextList == ListFiles

SpecList == InitList /\ [][NextList]_vars

ListRoots == trash_roots_listed(rcall[1].before, mountinfo, environ).roots

ListEntries(f, roots) ==
    UNION {{[at |-> j, root |-> roots[j], entry |-> q] : q \in DirEntries(f, roots[j].files)} :
              j \in DOMAIN roots}

ListInfoOf(x) == x.root.info \o <<file_name(x.entry) \o ext_trashinfo>>

ListValid(f, x) == is_file(f, ListInfoOf(x)) /\ ThreeLines(Stat(f, ListInfoOf(x)).c)

ListHas(files, x) ==
    \E i \in DOMAIN files :
        /\ files[i].files_entry = x.entry
        /\ files[i].files_entry # Unset
        /\ files[i].trashinfo # NoTrashInfo
        /\ files[i].trashinfo.path = ListInfoOf(x)
        /\ files[i].trashroot = x.root

ListWasCalled ==
    /\ rcall # <<>>
    /\ rcall[1].op = "get_trashed_files"
    /\ "files" \in DOMAIN rcall[1]

ListAll(files, entries) ==
    /\ Len(files) = Cardinality(entries)
    /\ \A x \in entries : ListHas(files, x)
    /\ \A i \in DOMAIN files : \E x \in entries : files[i].files_entry = x.entry

\* C40: listing is all-or-nothing.  A successful get_trashed_files returns
\* one TrashFile for every entry of files/ of every root of its list, with
\* files_entry set, trashinfo set and trashinfo.path = info/<name>.trashinfo,
\* and nothing else; a failed one returns nothing; and it fails whenever
\* some files/ entry of some root has no .trashinfo file or one whose text
\* is not a trashinfo.
C40_ListingAllOrNothing ==
    ListWasCalled =>
        /\ rcall[1].e = "" =>
              ListAll(rcall[1].files, ListEntries(rcall[1].before, ListRoots))
        /\ rcall[1].e # "" => rcall[1].files = <<>>
        /\ (\E x \in ListEntries(rcall[1].before, ListRoots) :
                ~ListValid(rcall[1].before, x))
              => rcall[1].e # ""

C40_Witness ==
    /\ ListWasCalled
    /\ rcall[1].e = ""
    /\ Len(rcall[1].files) = 3
    /\ Len(ListRoots) = 2

C40_WitnessFailed ==
    /\ ListWasCalled
    /\ rcall[1].e # ""
    /\ \E x \in ListEntries(rcall[1].before, ListRoots) : ListValid(rcall[1].before, x)
    /\ \E x \in ListEntries(rcall[1].before, ListRoots) : ~ListValid(rcall[1].before, x)

====
